---- MODULE Spec2Model ----
(***************************************************************************)
(* Identity & access-control core of the school management backend:       *)
(* token issuance (utils/jwtHelper.js), the two authentication            *)
(* middlewares (middleware/verifyToken.js and middleware/auth.js), the    *)
(* role gates, the auth routers and the admin user management, and the    *)
(* visitor tracking that the analytics middleware runs on every request   *)
(* (middleware/analytics.js, middleware/visitorTracking.js).              *)
(*                                                                         *)
(* Every HTTP handler is one atomic action: the middleware chain of the   *)
(* route, then the handler body with its store writes and its response.   *)
(* The last response is observable in the variable resp.                  *)
(***************************************************************************)
EXTENDS Integers, FiniteSets, Sequences, TLC

(* ---------------------------------------------------------------- bounds *)

\* Last instant of the clock.
MaxClock == 1

\* Lifetime of a token and of the session cookie, in clock ticks
\* (JWT_EXPIRE and JWT_COOKIE_EXPIRE both default to seven days).
TokenTtl == 1

\* Page-visit entries one Visit Record can hold in the model.
MaxVisits == 2

(* ------------------------------------------------------------- constants *)

\* The presence window of getOnlineCount / getOnlineByRole (30 * 60 * 1000
\* ms) and the TTL of lastActivity (1800 s): both shorter than one tick.
PresenceWindow == 0
PresenceTtl == 0

\* The logout cookie lives 10 * 1000 ms: less than one clock tick.
LogoutCookieTicks == 0

\* Staff records (User collection) and Student records, by ObjectId.
StaffIds == {"u1", "u2"}
StudentIds == {"s1", "s2"}

\* process.env.SUPER_ADMIN_EMAIL is the email u1 is created with.
SuperAdminId == "u1"

\* The email a Staff record is created with (an admin update can change it
\* later) and the student number of a Student record.
EmailOf(u) == IF u = "u1" THEN "a@x.com" ELSE "t@x.com"
NumberOf(s) == IF s = "s1" THEN "1001" ELSE "1002"
Emails == {EmailOf(u) : u \in StaffIds}
SuperAdminEmail == EmailOf(SuperAdminId)
Numbers == {NumberOf(s) : s \in StudentIds}

\* Values of the userType enum of the User schema.
UserTypes == {"teacher", "admin", "student"}

\* Plain passwords a client may type.
Passwords == {"p1", "p2"}

(* ------------------------------------------------------------- passwords *)

\* bcrypt.hash: the stored value is not the plain text.
Hash(plain) == <<"bcrypt", plain>>

\* userSchema.methods.matchPassword / studentSchema.methods.matchPassword
matchPassword(entered, stored) == Hash(entered) = stored

\* The result of bcrypt.hash on a value that is itself a stored hash: it
\* matches no password a client can type.
HashOfHash == <<"bcrypt", "$2a$10$">>

\* A pre-save hook whose hash of an unmodified password reaches the write.
preSaveRehashes(value, modified) ==
  IF modified THEN Hash(value) ELSE HashOfHash

\* userSchema.pre('save'): the password that a save() persists, given
\* this.password and isModified('password').  For an unmodified password
\* the hook calls next() at once, the save composes its write from the
\* modified paths (password is not among them), and the hash that the
\* code after the missing return computes arrives after that.
preSave(value, modified) ==
  IF modified THEN Hash(value) ELSE value

(* ---------------------------------------------------------------- tokens *)

\* A token value as it travels in a header or a cookie.  sig is "ok" for a
\* token signed with JWT_SECRET, "bad" for a wrong signature, "none" for
\* the literal cookie text 'none' and "absent" when there is no value.
NoTok == [id |-> "-", userType |-> "-", exp |-> 0, sig |-> "absent"]
NoneTok == [id |-> "-", userType |-> "-", exp |-> 0, sig |-> "none"]

\* jwt.sign({id, userType}, JWT_SECRET, {expiresIn})
generateToken(id, userType, t) ==
  [id |-> id, userType |-> userType, exp |-> t + TokenTtl, sig |-> "ok"]

\* Tokens that no endpoint of this server issued: one with a wrong
\* signature, and a correctly signed one (same secret) that carries a kind
\* the middleware does not know and expires at tick 1.
ForeignTokens ==
  { [id |-> "u1", userType |-> "admin", exp |-> MaxClock + TokenTtl + 1, sig |-> "bad"],
    [id |-> "u2", userType |-> "parent", exp |-> 1, sig |-> "ok"] }

\* jwt.verify(token, JWT_SECRET): the signature is checked first, then the
\* expiry; the payload is returned only when both pass.
jwtVerify(tok, t) ==
  IF tok.sig # "ok" THEN "JsonWebTokenError"
  ELSE IF t >= tok.exp THEN "TokenExpiredError"
  ELSE "decoded"

(* --------------------------------------------------------------- request *)

\* The Authorization header: absent, 'Bearer' with no token value after
\* it, or 'Bearer <token>'.
NoHeader == [scheme |-> "absent", tok |-> NoTok]
BearerEmpty == [scheme |-> "Bearer", tok |-> NoTok]
Bearer(tok) == [scheme |-> "Bearer", tok |-> tok]

\* Token extraction shared by verifyToken, protect and optionalAuth:
\* a header that starts with 'Bearer' decides alone, else the cookie.
extractTokenCookieFirst(hdr, ck) ==
  IF ck # NoTok THEN ck
  ELSE IF hdr.scheme = "Bearer" THEN hdr.tok
  ELSE NoTok

extractToken(hdr, ck) ==
  IF hdr.scheme = "Bearer" THEN hdr.tok
  ELSE IF ck # NoTok THEN ck
  ELSE NoTok

VARIABLES
  users,     \* User collection: StaffIds -> record
  students,  \* Student collection: StudentIds -> record
  now,       \* the clock
  held,      \* the token the client kept from the last response body
  cookie,    \* the client's cookie jar entry 'token': [val, exp]
  resp,      \* the last request and its response
  online,    \* OnlineUser collection: session id -> presence record
  visits,    \* Visitor collection: (ip, session id) -> Visit Record
  siteStats, \* SiteStats document 'site_stats': totalPageViews
  proc,      \* the requests inside the analytics middleware
  sessionCookie \* the 'ogrenciTakip.sid' cookie each client holds

\* The collections and the requests of the visitor tracking.
tracking == <<online, visits, siteStats, proc, sessionCookie>>

\* The Credential Store, the client and the last exchange.
session == <<users, students, held, cookie, resp, sessionCookie>>

vars == <<users, students, now, held, cookie, resp, online, visits, siteStats, proc,
         sessionCookie>>


(* ----------------------------------------------------------------- store *)

\* A deleted (or never created) record, in canonical form.
NoUser == [exists |-> FALSE, isActive |-> FALSE, userType |-> "teacher",
           password |-> Hash("p1"), email |-> "-"]
NoStudent == [exists |-> FALSE, isActive |-> FALSE, password |-> Hash("p1"),
              teacher |-> "u2", name |-> "-"]

\* User.findById / Student.findById: an id of the other collection is
\* simply not found.
findUser(id) == id \in StaffIds /\ users[id].exists
findStudent(id) == id \in StudentIds /\ students[id].exists

\* User.findOne({ email }) / Student.findOne({ studentNumber })
userByEmail(email) == {u \in StaffIds : users[u].exists /\ users[u].email = email}
studentByNumber(n) == {s \in StudentIds : students[s].exists /\ NumberOf(s) = n}

(* ---------------------------------------------------- middleware results *)

\* What a middleware did: pass = it called next(); otherwise the middleware
\* `by` sent the response (status, code, msg).  user is req.user after it.
\* code "-" means the response body has no code field.  nexts and sends
\* count the calls of next() and the responses sent by the middleware that
\* ran last.
Anonymous == [id |-> "-", userType |-> "-"]
Reject(by, status, code, msg) ==
  [pass |-> FALSE, by |-> by, status |-> status, code |-> code, msg |-> msg,
   user |-> Anonymous, nexts |-> 0, sends |-> 1]
Pass(user) ==
  [pass |-> TRUE, by |-> "-", status |-> 0, code |-> "-", msg |-> "-", user |-> user,
   nexts |-> 1, sends |-> 0]

\* A verifyToken that would load the principal before it looks at the
\* expiry of the token.
verifyTokenLookupFirst(hdr, ck) ==
  LET token == extractToken(hdr, ck) IN
  IF token = NoTok
    THEN Reject("verifyToken", 401, "NO_TOKEN", "Erisim reddedildi. Lutfen giris yapiniz.")
  ELSE IF token.sig # "ok"
    THEN Reject("verifyToken", 401, "TOKEN_MALFORMED", "Gecersiz token")
  ELSE IF token.userType = "student" /\ ~findStudent(token.id)
    THEN Reject("verifyToken", 401, "USER_NOT_FOUND", "Ogrenci bulunamadi")
  ELSE IF token.userType \in {"teacher", "admin"} /\ ~findUser(token.id)
    THEN Reject("verifyToken", 401, "USER_NOT_FOUND", "Kullanici bulunamadi")
  ELSE IF token.userType \notin {"student", "teacher", "admin"}
    THEN Reject("verifyToken", 401, "INVALID_USER_TYPE", "Gecersiz kullanici tipi")
  ELSE IF ~(IF token.userType = "student" THEN students[token.id].isActive
                                          ELSE users[token.id].isActive)
    THEN Reject("verifyToken", 401, "ACCOUNT_DEACTIVATED", "Hesabiniz deaktif durumda")
  ELSE IF now >= token.exp
    THEN Reject("verifyToken", 401, "TOKEN_EXPIRED", "Token suresi dolmus")
  ELSE Pass([id |-> token.id, userType |-> token.userType])

\* middleware/verifyToken.js verifyToken.  jwt.verify throws before any
\* lookup; the catch maps TokenExpiredError and JsonWebTokenError.
verifyToken(hdr, ck) ==
  LET token == extractToken(hdr, ck) IN
  IF token = NoTok
    THEN Reject("verifyToken", 401, "NO_TOKEN", "Erisim reddedildi. Lutfen giris yapiniz.")
  ELSE IF jwtVerify(token, now) = "TokenExpiredError"
    THEN Reject("verifyToken", 401, "TOKEN_EXPIRED", "Token suresi dolmus")
  ELSE IF jwtVerify(token, now) = "JsonWebTokenError"
    THEN Reject("verifyToken", 401, "TOKEN_MALFORMED", "Gecersiz token")
  ELSE IF token.userType = "student"
    THEN IF ~findStudent(token.id)
           THEN Reject("verifyToken", 401, "USER_NOT_FOUND", "Ogrenci bulunamadi")
         ELSE IF ~students[token.id].isActive
           THEN Reject("verifyToken", 401, "ACCOUNT_DEACTIVATED", "Hesabiniz deaktif durumda")
         ELSE Pass([id |-> token.id, userType |-> "student"])
  ELSE IF token.userType \in {"teacher", "admin"}
    THEN IF ~findUser(token.id)
           THEN Reject("verifyToken", 401, "USER_NOT_FOUND", "Kullanici bulunamadi")
         ELSE IF ~users[token.id].isActive
           THEN Reject("verifyToken", 401, "ACCOUNT_DEACTIVATED", "Hesabiniz deaktif durumda")
         ELSE Pass([id |-> token.id, userType |-> token.userType])
  ELSE Reject("verifyToken", 401, "INVALID_USER_TYPE", "Gecersiz kullanici tipi")

\* middleware/auth.js protect.  Its responses carry a message and no code.
\* A token of a known kind whose record is gone makes `user.userType = ...`
\* throw on null, which the catch turns into 'Gecersiz token'.
protect(hdr, ck) ==
  LET token == extractToken(hdr, ck) IN
  IF token = NoTok
    THEN Reject("protect", 401, "-", "Erisim reddedildi. Lutfen giris yapin.")
  ELSE IF jwtVerify(token, now) # "decoded"
    THEN Reject("protect", 401, "-", "Gecersiz token")
  ELSE IF token.userType = "student"
    THEN IF ~findStudent(token.id)
           THEN Reject("protect", 401, "-", "Gecersiz token")
         ELSE IF ~students[token.id].isActive
           THEN Reject("protect", 401, "-", "Hesap deaktif durumda")
         ELSE Pass([id |-> token.id, userType |-> "student"])
  ELSE IF token.userType \in {"teacher", "admin"}
    THEN IF ~findUser(token.id)
           THEN Reject("protect", 401, "-", "Gecersiz token")
         ELSE IF ~users[token.id].isActive
           THEN Reject("protect", 401, "-", "Hesap deaktif durumda")
         ELSE Pass([id |-> token.id, userType |-> token.userType])
  ELSE Reject("protect", 401, "-", "Kullanici bulunamadi")

\* middleware/verifyToken.js authorizeRoles(...allowedRoles), applied to
\* the outcome of what ran before it on the route.
authorizeRoles(allowed, before) ==
  IF ~before.pass THEN before
  ELSE IF before.user = Anonymous
    THEN Reject("authorizeRoles", 401, "NOT_AUTHENTICATED", "Once giris yapmalisiniz")
  ELSE IF before.user.userType \notin allowed
    THEN Reject("authorizeRoles", 403, "INSUFFICIENT_PERMISSION", "Bu islem icin yetki gereklidir")
  ELSE before

\* middleware/auth.js authorize(...roles)
authorize(allowed, before) ==
  IF ~before.pass THEN before
  ELSE IF before.user = Anonymous
    THEN Reject("authorize", 401, "-", "Erisim reddedildi")
  ELSE IF before.user.userType \notin allowed
    THEN Reject("authorize", 403, "-", "Bu islem icin yetkiniz yok")
  ELSE before

\* A checkOwnership whose denial of a foreign id lacks the return: the
\* response is sent and the code goes on to next().
checkOwnershipNoReturn(param, before) ==
  IF ~before.pass THEN before
  ELSE IF before.user = Anonymous
    THEN Reject("checkOwnership", 500, "AUTHORIZATION_ERROR", "Yetkilendirme kontrol hatasi")
  ELSE IF before.user.userType = "admin" THEN before
  ELSE IF before.user.userType = "student" /\ param # "-" /\ param # before.user.id
    THEN [Reject("checkOwnership", 403, "ACCESS_DENIED",
                 "Bu kaynaga erisim yetkiniz bulunmamaktadir") EXCEPT !.nexts = 1]
  ELSE before

\* middleware/verifyToken.js checkOwnership(resourceField), applied to the
\* outcome of what ran before it; param is req.params.id ("-" when the
\* route has none).  Reading req.user.userType with no req.user throws,
\* and the catch answers 500.  The teacher branch is empty.
checkOwnership(param, before) ==
  IF ~before.pass THEN before
  ELSE IF before.user = Anonymous
    THEN Reject("checkOwnership", 500, "AUTHORIZATION_ERROR", "Yetkilendirme kontrol hatasi")
  ELSE IF before.user.userType = "admin" THEN before
  ELSE IF before.user.userType = "student" /\ param # "-" /\ param # before.user.id
    THEN Reject("checkOwnership", 403, "ACCESS_DENIED",
                "Bu kaynaga erisim yetkiniz bulunmamaktadir")
  ELSE before

\* middleware/auth.js ownershipOrAdmin(resourceField)
ownershipOrAdmin(param, before) ==
  IF ~before.pass THEN before
  ELSE IF before.user = Anonymous
    THEN Reject("ownershipOrAdmin", 500, "-", "Yetkilendirme hatasi")
  ELSE IF before.user.userType = "admin" THEN before
  ELSE IF before.user.userType = "student" /\ param # "-" /\ param # before.user.id
    THEN Reject("ownershipOrAdmin", 403, "-", "Bu kaynaga erisim yetkiniz yok")
  ELSE before

\* An optionalAuth that would attach a principal without looking at its
\* active flag.
optionalAuthNoActiveCheck(hdr, ck) ==
  LET token == extractToken(hdr, ck) IN
  IF token = NoTok \/ jwtVerify(token, now) # "decoded" THEN Pass(Anonymous)
  ELSE IF token.userType = "student" /\ findStudent(token.id)
    THEN Pass([id |-> token.id, userType |-> "student"])
  ELSE IF token.userType \in {"teacher", "admin"} /\ findUser(token.id)
    THEN Pass([id |-> token.id, userType |-> token.userType])
  ELSE Pass(Anonymous)

\* middleware/verifyToken.js optionalAuth: every failure is swallowed and
\* next() is called; req.user is set only for a found, active principal.
optionalAuth(hdr, ck) ==
  LET token == extractToken(hdr, ck) IN
  IF token = NoTok \/ jwtVerify(token, now) # "decoded" THEN Pass(Anonymous)
  ELSE IF token.userType = "student" /\ findStudent(token.id)
                                     /\ students[token.id].isActive
    THEN Pass([id |-> token.id, userType |-> "student"])
  ELSE IF token.userType \in {"teacher", "admin"} /\ findUser(token.id)
                                                  /\ users[token.id].isActive
    THEN Pass([id |-> token.id, userType |-> token.userType])
  ELSE Pass(Anonymous)

\* middleware/auth.js optionalAuth: a record that is gone makes
\* `user.userType = ...` throw inside the try, which the empty catch
\* swallows; the outcome is the same.
optionalAuthLegacy(hdr, ck) ==
  LET token == extractToken(hdr, ck) IN
  IF token = NoTok \/ jwtVerify(token, now) # "decoded" THEN Pass(Anonymous)
  ELSE IF token.userType = "student"
    THEN IF findStudent(token.id) /\ students[token.id].isActive
           THEN Pass([id |-> token.id, userType |-> "student"])
           ELSE Pass(Anonymous)
  ELSE IF token.userType \in {"teacher", "admin"}
    THEN IF findUser(token.id) /\ users[token.id].isActive
           THEN Pass([id |-> token.id, userType |-> token.userType])
           ELSE Pass(Anonymous)
  ELSE Pass(Anonymous)

\* A route without an authentication middleware: req.user stays unset.
noAuth(hdr, ck) == Pass(Anonymous)


(* ---------------------------------------------------------------- routes *)

\* The guarded routes of the model and the middleware chain each router
\* file mounts in front of the handler.
ProtectRoutes == {"auth/me", "auth/logout", "auth/update-password",
                  "auth/student/updatepassword", "students/update",
                  "students/delete", "students/create"}
VerifyTokenRoutes == {"auth/teacher/logout", "admin/users/update",
                      "admin/users/delete", "admin/users/bulk-action",
                      "student/dashboard", "teacher/students/add"}
UnauthenticatedRoutes == {"auth/teacher/me", "auth/teacher/updatepassword",
                          "analytics/weekly"}
GuardedRoutes == ProtectRoutes \cup VerifyTokenRoutes \cup UnauthenticatedRoutes

authOf(r) ==
  IF r \in ProtectRoutes THEN "protect"
  ELSE IF r \in VerifyTokenRoutes THEN "verifyToken"
  ELSE "none"

\* "authorizeRoles" (teacherOnly, studentOnly, adminOnly), "authorize", or
\* no role gate at all.
gateOf(r) ==
  IF r \in {"auth/teacher/me", "auth/teacher/updatepassword", "analytics/weekly",
            "admin/users/update", "admin/users/delete",
            "admin/users/bulk-action", "student/dashboard",
            "teacher/students/add"}
    THEN "authorizeRoles"
  ELSE IF r \in {"auth/student/updatepassword", "students/update",
                 "students/delete", "students/create"}
    THEN "authorize"
  ELSE "none"

rolesOf(r) ==
  IF r \in {"admin/users/update", "admin/users/delete",
            "admin/users/bulk-action"} THEN {"admin"}
  ELSE IF r \in {"student/dashboard", "auth/student/updatepassword"}
    THEN {"student"}
  ELSE {"teacher", "admin"}

authenticate(r, hdr, ck) ==
  IF authOf(r) = "verifyToken" THEN verifyToken(hdr, ck)
  ELSE IF authOf(r) = "protect" THEN protect(hdr, ck)
  ELSE noAuth(hdr, ck)

\* The whole chain in front of the handler of route r.
guard(r, hdr, ck) ==
  IF gateOf(r) = "authorizeRoles"
    THEN authorizeRoles(rolesOf(r), authenticate(r, hdr, ck))
  ELSE IF gateOf(r) = "authorize"
    THEN authorize(rolesOf(r), authenticate(r, hdr, ck))
  ELSE authenticate(r, hdr, ck)

(* ------------------------------------------------------------- responses *)

\* The stored state of the principal a token names, at the time of a
\* request: "none" for a value that is not a signed token.
PrincipalState(tok) ==
  IF tok.sig # "ok" THEN "none"
  ELSE IF tok.userType = "student"
    THEN IF ~findStudent(tok.id) THEN "missing"
         ELSE IF students[tok.id].isActive THEN "active" ELSE "inactive"
  ELSE IF tok.userType \in {"teacher", "admin"}
    THEN IF ~findUser(tok.id) THEN "missing"
         ELSE IF users[tok.id].isActive THEN "active" ELSE "inactive"
  ELSE "unknown-kind"

\* The fields of a request body that a decision reads; "-" when absent.
NoBody == [number |-> "-", name |-> "-", param |-> "-"]

\* The request (route, header, cookie, time, state of the principals the
\* two credentials name) and the response: who sent it (a middleware or
\* the handler), the id of req.user, status, code and message of the body,
\* whether the route handler ran, the subject id in the body and the token
\* delivered in the body and as Set-Cookie.  body is what the request sent.
Response(route, hdr, ck, by, principal, status, code, msg, ran, uid, tok, setCookie) ==
  [route |-> route, hdr |-> hdr, ck |-> ck, at |-> now,
   hp |-> PrincipalState(hdr.tok), cp |-> PrincipalState(ck),
   by |-> by, principal |-> principal,
   status |-> status, code |-> code, msg |-> msg, ran |-> ran,
   uid |-> uid, tok |-> tok, setCookie |-> setCookie, body |-> NoBody,
   nexts |-> 0, sends |-> 0]

\* No exchange is in progress.
Idle ==
  [route |-> "-", hdr |-> NoHeader, ck |-> NoTok, at |-> 0, hp |-> "none",
   cp |-> "none", by |-> "-", principal |-> "-", status |-> 0, code |-> "-", msg |-> "-", ran |-> FALSE,
   uid |-> "-", tok |-> NoTok, setCookie |-> NoTok, body |-> NoBody,
   nexts |-> 0, sends |-> 0]

\* The response of a middleware that did not call next().
Rejected(route, hdr, ck, g) ==
  [Response(route, hdr, ck, g.by, "-", g.status, g.code, g.msg, FALSE, "-",
            NoTok, NoTok) EXCEPT !.nexts = g.nexts, !.sends = g.sends]

\* The response of the handler of a guarded route, for the principal the
\* guard g attached.
Handled(route, hdr, ck, g, status, msg, uid) ==
  [Response(route, hdr, ck, "handler", g.user.id, status, "-", msg, TRUE, uid,
            NoTok, NoTok) EXCEPT !.nexts = g.nexts, !.sends = g.sends]

\* A response together with the body of the request it answers.
WithBody(r, number, name, param) ==
  [r EXCEPT !.body = [number |-> number, name |-> name, param |-> param]]

\* What a client can put on a request: the token it holds or a foreign
\* one in the header, the content of its cookie jar or nothing as cookie.
ClientTokens == ({held} \cup ForeignTokens) \ {NoTok}
Headers == {NoHeader, BearerEmpty} \cup {Bearer(t) : t \in ClientTokens}
Cookies == {NoTok, cookie.val}

NoCookie == [val |-> NoTok, exp |-> 0]

\* Session identifiers of express-session (req.sessionID); every session
\* comes from one IP address, so a session stands for the pair (ip,
\* sessionId).  ProcIds are the requests that can be in flight together.
SessionIds == {"g1", "g2"}
ProcIds == 1..2

\* The clients (browsers) that send requests, and the Referrer header of a
\* request ('direct' when it has none).
Clients == {"c1", "c2"}
Referrers == {"direct", "ref"}

\* An absent presence record, an absent Visit Record, in canonical form.
\* hdr and client of a presence record are not fields of the schema: they
\* keep the Authorization header and the client of the request that wrote
\* the record last.  pages is the list of the visitTime of the entries.
NoPresence == [exists |-> FALSE, lastActivity |-> 0, userRole |-> "-",
               isAuthenticated |-> FALSE, hdr |-> NoHeader, client |-> "-"]
NoVisit == [exists |-> FALSE, visitCount |-> 0, pages |-> << >>, isBot |-> FALSE,
            firstVisit |-> 0, lastVisit |-> 0, referrer |-> "-"]

\* A request slot with no request in it.  pc is the position inside the
\* analytics middleware; loaded is visitor.visitCount of the document the
\* upsert returned; nexts counts the calls of next() by the middleware;
\* presence and visit are what the two trackers did; wasStale tells that
\* the presence record of the session was outside the window before.
IdleProc == [pc |-> "idle", sid |-> "-", ua |-> "-", path |-> "-", loaded |-> 0,
             nexts |-> 0, presence |-> "-", visit |-> "-", wasStale |-> FALSE,
             hdr |-> NoHeader, referrer |-> "-", client |-> "-"]

Init ==
  /\ users = [u \in StaffIds |->
                [exists |-> TRUE, isActive |-> TRUE,
                 userType |-> IF u = SuperAdminId THEN "admin" ELSE "teacher",
                 password |-> Hash("p1"), email |-> EmailOf(u)]]
  /\ students = [s \in StudentIds |->
                   IF s = "s1"
                     THEN [exists |-> TRUE, isActive |-> TRUE,
                           password |-> Hash("p1"), teacher |-> "u2",
                           name |-> "n1"]
                     ELSE NoStudent]
  /\ now = 0
  /\ held = NoTok
  /\ cookie = NoCookie
  /\ resp = Idle
  /\ online = [s \in SessionIds |-> NoPresence]
  /\ visits = [s \in SessionIds |-> NoVisit]
  /\ siteStats = 0
  /\ proc = [p \in ProcIds |-> IdleProc]
  /\ sessionCookie = [c \in Clients |-> "-"]

(* -------------------------------------------------------- token delivery *)

\* utils/jwtHelper.js sendTokenResponse(user, statusCode, res, userType):
\* the token goes into the body and into the http-only cookie.  The client
\* stores the cookie and may keep the body token or the one it had.
sendTokenResponse(route, hdr, ck, id, statusCode, userType) ==
  LET token == generateToken(id, userType, now) IN
  /\ resp' = Response(route, hdr, ck, "handler", "-", statusCode, "-",
                      IF userType = "student" THEN "Ogrenci girisi basarili"
                                              ELSE "Ogretmen girisi basarili",
                      TRUE, id, token, token)
  /\ cookie' = [val |-> token, exp |-> now + TokenTtl]
  /\ held' \in {token, held}
  /\ UNCHANGED tracking

\* A response that sets no cookie and delivers no token.
send(r) == resp' = r /\ UNCHANGED <<held, cookie>> /\ UNCHANGED tracking


\* A public route answers without looking at credentials.
Public(route, status, msg) ==
  Response(route, NoHeader, NoTok, "handler", "-", status, "-", msg, TRUE, "-",
           NoTok, NoTok)

\* User.create({name, surname, email, password, ...}): the schema defaults
\* give userType 'teacher' and isActive true; a `role` key is not a path
\* of the schema and is dropped.
createUser(u, pw) ==
  users' = [users EXCEPT ![u] = [exists |-> TRUE, isActive |-> TRUE,
                                 userType |-> "teacher", password |-> Hash(pw),
                                 email |-> EmailOf(u)]]

(* ------------------------------------------- routes/auth.js (/api/auth) *)

\* POST /api/auth/register.  user.role is undefined on a User document, so
\* sendTokenResponse falls back to its default userType 'teacher'.
Register(email, pw) ==
  /\ UNCHANGED <<students, now>>
  /\ IF userByEmail(email) # {}
       THEN /\ send(Public("auth/register", 400, "Bu email adresi zaten kullaniliyor"))
            /\ UNCHANGED users
       ELSE \E u \in StaffIds :
              /\ EmailOf(u) = email
              /\ createUser(u, pw)
              /\ sendTokenResponse("auth/register", NoHeader, NoTok, u, 201, "teacher")

\* A login that would skip the isActive check.
LoginNoActiveCheck(email, pw) ==
  /\ UNCHANGED <<students, now>>
  /\ IF userByEmail(email) = {}
       THEN send(Public("auth/login", 401, "Gecersiz email veya sifre"))
            /\ UNCHANGED users
       ELSE LET u == CHOOSE x \in userByEmail(email) : TRUE IN
            IF ~matchPassword(pw, users[u].password)
              THEN send(Public("auth/login", 401, "Gecersiz email veya sifre"))
                   /\ UNCHANGED users
            ELSE /\ users' = [users EXCEPT ![u].password = preSave(@, FALSE)]
                 /\ sendTokenResponse("auth/login", NoHeader, NoTok, u, 200, "teacher")

\* POST /api/auth/login.  user.lastLogin = new Date(); user.save() goes
\* through the pre-save hook with an unmodified password (lastLogin is no
\* field of the model record); the token kind is the default 'teacher'
\* because user.role is undefined.
Login(email, pw) ==
  /\ UNCHANGED <<students, now>>
  /\ IF userByEmail(email) = {}
       THEN send(Public("auth/login", 401, "Gecersiz email veya sifre"))
            /\ UNCHANGED users
       ELSE LET u == CHOOSE x \in userByEmail(email) : TRUE IN
            IF ~users[u].isActive
              THEN send(Public("auth/login", 401, "Hesabiniz deaktif durumda"))
                   /\ UNCHANGED users
            ELSE IF ~matchPassword(pw, users[u].password)
              THEN send(Public("auth/login", 401, "Gecersiz email veya sifre"))
                   /\ UNCHANGED users
            ELSE /\ users' = [users EXCEPT ![u].password = preSave(@, FALSE)]
                 /\ sendTokenResponse("auth/login", NoHeader, NoTok, u, 200, "teacher")

\* What both student-login handlers decide for (studentNumber, password):
\* not found, deactivated, wrong password, success, in this order.
studentLoginOutcome(number, pw) ==
  IF studentByNumber(number) = {}
    THEN [status |-> 401, msg |-> "Gecersiz ogrenci numarasi veya sifre", id |-> "-"]
    ELSE LET st == CHOOSE x \in studentByNumber(number) : TRUE IN
         IF ~students[st].isActive
           THEN [status |-> 401, msg |-> "Hesabiniz deaktif durumda", id |-> "-"]
         ELSE IF ~matchPassword(pw, students[st].password)
           THEN [status |-> 401, msg |-> "Gecersiz ogrenci numarasi veya sifre",
                 id |-> "-"]
         ELSE [status |-> 200, msg |-> "Ogrenci girisi basarili", id |-> st]

\* The body of both student-login handlers.
studentLogin(route, number, pw) ==
  LET o == studentLoginOutcome(number, pw) IN
  /\ UNCHANGED <<users, students, now>>
  /\ IF o.status # 200
       THEN send(Public(route, o.status, o.msg))
       ELSE sendTokenResponse(route, NoHeader, NoTok, o.id, 200, "student")

\* POST /api/auth/student-login
StudentLogin(number, pw) == studentLogin("auth/student-login", number, pw)

\* GET /api/auth/me behind protect: reloads the principal and returns it.
Me(hdr, ck) ==
  LET g == guard("auth/me", hdr, ck) IN
  /\ UNCHANGED <<users, students, now>>
  /\ IF ~g.pass
       THEN send(Rejected("auth/me", hdr, ck, g))
       ELSE send(Handled("auth/me", hdr, ck, g, 200, "-", g.user.id))

\* res.cookie('token', 'none', {expires: now + 10 s}) and a 200.
logoutResponse(route, hdr, ck, g) ==
  /\ resp' = Response(route, hdr, ck, "handler", g.user.id, 200, "-",
                      "Basariyla cikis yapildi", TRUE, "-", NoTok, NoneTok)
  /\ cookie' = [val |-> NoneTok, exp |-> now + LogoutCookieTicks]
  /\ UNCHANGED held
  /\ UNCHANGED tracking

\* A logout that would answer 200 without touching the cookie.
LogoutKeepsCookie(hdr, ck) ==
  LET g == guard("auth/logout", hdr, ck) IN
  /\ UNCHANGED <<users, students, now>>
  /\ IF ~g.pass
       THEN send(Rejected("auth/logout", hdr, ck, g))
       ELSE send(Handled("auth/logout", hdr, ck, g, 200, "Basariyla cikis yapildi", "-"))

\* POST /api/auth/logout behind protect
Logout(hdr, ck) ==
  LET g == guard("auth/logout", hdr, ck) IN
  /\ UNCHANGED <<users, students, now>>
  /\ IF ~g.pass
       THEN send(Rejected("auth/logout", hdr, ck, g))
       ELSE logoutResponse("auth/logout", hdr, ck, g)

\* PUT /api/auth/update-password behind protect: no token in the answer.
UpdatePassword(hdr, ck, cur, new) ==
  LET r == "auth/update-password"
      g == guard(r, hdr, ck) IN
  /\ now' = now
  /\ IF ~g.pass
       THEN send(Rejected(r, hdr, ck, g)) /\ UNCHANGED <<users, students>>
     ELSE IF g.user.userType = "student"
       THEN IF ~matchPassword(cur, students[g.user.id].password)
              THEN /\ send(Handled(r, hdr, ck, g, 400, "Mevcut sifre yanlis", "-"))
                   /\ UNCHANGED <<users, students>>
              ELSE /\ students' = [students EXCEPT ![g.user.id].password = Hash(new)]
                   /\ send(Handled(r, hdr, ck, g, 200, "Sifre basariyla guncellendi", "-"))
                   /\ UNCHANGED users
     ELSE IF ~matchPassword(cur, users[g.user.id].password)
       THEN /\ send(Handled(r, hdr, ck, g, 400, "Mevcut sifre yanlis", "-"))
            /\ UNCHANGED <<users, students>>
     ELSE /\ users' = [users EXCEPT ![g.user.id].password = Hash(new)]
          /\ send(Handled(r, hdr, ck, g, 200, "Sifre basariyla guncellendi", "-"))
          /\ UNCHANGED students

(* ----------------------------- routes/teacherAuth.js (/api/auth/teacher) *)

\* POST /api/auth/teacher/register
TeacherRegister(email, pw) ==
  /\ UNCHANGED <<students, now>>
  /\ IF userByEmail(email) # {}
       THEN /\ send(Public("auth/teacher/register", 400,
                           "Bu e-posta adresi zaten kullaniliyor"))
            /\ UNCHANGED users
       ELSE \E u \in StaffIds :
              /\ EmailOf(u) = email
              /\ createUser(u, pw)
              /\ sendTokenResponse("auth/teacher/register", NoHeader, NoTok, u,
                                   201, "teacher")

\* POST /api/auth/teacher/login.  The filter keeps userType teacher/admin
\* (no document has a `role` field); the token carries user.userType.
TeacherLogin(email, pw) ==
  LET r == "auth/teacher/login"
      found == {u \in userByEmail(email) : users[u].userType \in {"teacher", "admin"}} IN
  /\ UNCHANGED <<students, now>>
  /\ IF found = {}
       THEN send(Public(r, 401, "Gecersiz e-posta veya sifre"))
            /\ UNCHANGED users
       ELSE LET u == CHOOSE x \in found : TRUE IN
            IF ~users[u].isActive
              THEN send(Public(r, 401, "Hesabiniz deaktif durumda"))
                   /\ UNCHANGED users
            ELSE IF ~matchPassword(pw, users[u].password)
              THEN send(Public(r, 401, "Gecersiz e-posta veya sifre"))
                   /\ UNCHANGED users
            ELSE /\ users' = [users EXCEPT ![u].password = preSave(@, FALSE)]
                 /\ sendTokenResponse(r, NoHeader, NoTok, u, 200, users[u].userType)

\* POST /api/auth/teacher/student-login
TeacherStudentLogin(number, pw) ==
  studentLogin("auth/teacher/student-login", number, pw)

\* GET /api/auth/teacher/me: teacherOnly is the only middleware of the
\* route, nothing sets req.user before it.
TeacherMe(hdr, ck) ==
  LET r == "auth/teacher/me"
      g == guard(r, hdr, ck) IN
  /\ UNCHANGED <<users, students, now>>
  /\ IF ~g.pass
       THEN send(Rejected(r, hdr, ck, g))
     ELSE IF ~findUser(g.user.id)
       THEN send(Handled(r, hdr, ck, g, 404, "Kullanici bulunamadi", "-"))
     ELSE send(Handled(r, hdr, ck, g, 200, "-", g.user.id))

\* PUT /api/auth/teacher/updatepassword: teacherOnly alone, then the
\* password change and a new token.
TeacherUpdatePassword(hdr, ck, old, new) ==
  LET r == "auth/teacher/updatepassword"
      g == guard(r, hdr, ck) IN
  /\ UNCHANGED <<students, now>>
  /\ IF ~g.pass
       THEN send(Rejected(r, hdr, ck, g)) /\ UNCHANGED users
     ELSE IF ~matchPassword(old, users[g.user.id].password)
       THEN /\ send(Handled(r, hdr, ck, g, 400, "Mevcut sifre yanlis", "-"))
            /\ UNCHANGED users
     ELSE /\ users' = [users EXCEPT ![g.user.id].password = Hash(new)]
          /\ sendTokenResponse(r, hdr, ck, g.user.id, 200, "teacher")

\* POST /api/auth/teacher/logout behind verifyToken
TeacherLogout(hdr, ck) ==
  LET g == guard("auth/teacher/logout", hdr, ck) IN
  /\ UNCHANGED <<users, students, now>>
  /\ IF ~g.pass
       THEN send(Rejected("auth/teacher/logout", hdr, ck, g))
       ELSE logoutResponse("auth/teacher/logout", hdr, ck, g)


(* ----------------------------- routes/studentAuth.js (/api/auth/student) *)

\* POST /api/auth/student/login queries the path `numara` and reads the
\* fields `aktif` and `sifre`, none of which the Student schema has: the
\* query finds no document or an arbitrary one, and `student.aktif` is
\* undefined on every document.
StudentAuthLogin(number, pw) ==
  /\ UNCHANGED <<users, students, now>>
  /\ \E hit \in BOOLEAN :
       /\ hit => \E st \in StudentIds : students[st].exists
       /\ IF ~hit
            THEN send(Public("auth/student/login", 401,
                             "Gecersiz ogrenci numarasi veya sifre"))
            ELSE send(Public("auth/student/login", 401, "Hesabiniz deaktif durumda"))

\* PUT /api/auth/student/updatepassword behind protect and
\* authorize('student'): the handler calls student.sifreKarsilastir, which
\* is not a method of the schema; the TypeError goes to the error handler
\* before the save and before sendTokenResponse.
StudentAuthUpdatePassword(hdr, ck) ==
  LET r == "auth/student/updatepassword"
      g == guard(r, hdr, ck) IN
  /\ UNCHANGED <<users, students, now>>
  /\ IF ~g.pass
       THEN send(Rejected(r, hdr, ck, g))
       ELSE send(Handled(r, hdr, ck, g, 500, "-", "-"))

(* ------------------------- routes/admin.js + controllers/adminController *)

\* PUT /api/admin/users/:id behind verifyToken and adminOnly.  A field left
\* out of the body keeps its value, which is the same as sending it.  The
\* unique index on email makes the save fail (E11000, answered 400 by the
\* error handler) when another record has the new email.
AdminUpdateUser(hdr, ck, target, isActive, userType, email) ==
  LET r == "admin/users/update"
      g == guard(r, hdr, ck) IN
  /\ UNCHANGED <<students, now>>
  /\ IF ~g.pass
       THEN send(Rejected(r, hdr, ck, g)) /\ UNCHANGED users
     ELSE IF ~findUser(target)
       THEN /\ send(Handled(r, hdr, ck, g, 404, "Kullanici bulunamadi", "-"))
            /\ UNCHANGED users
     ELSE IF userByEmail(email) \ {target} # {}
       THEN /\ send(Handled(r, hdr, ck, g, 400, "Bu bilgiler zaten kayitli", "-"))
            /\ UNCHANGED users
     ELSE /\ users' = [users EXCEPT ![target].isActive = isActive,
                                    ![target].userType = userType,
                                    ![target].email = email]
          /\ send(Handled(r, hdr, ck, g, 200, "Kullanici basariyla guncellendi", target))

\* DELETE /api/admin/users/:id behind verifyToken and adminOnly
AdminDeleteUser(hdr, ck, target) ==
  LET r == "admin/users/delete"
      g == guard(r, hdr, ck) IN
  /\ UNCHANGED <<students, now>>
  /\ IF ~g.pass
       THEN send(Rejected(r, hdr, ck, g)) /\ UNCHANGED users
     ELSE IF ~findUser(target)
       THEN /\ send(Handled(r, hdr, ck, g, 404, "Kullanici bulunamadi", "-"))
            /\ UNCHANGED users
     ELSE IF users[target].email = SuperAdminEmail
       THEN /\ send(Handled(r, hdr, ck, g, 403, "Super admin silinemez", "-"))
            /\ UNCHANGED users
     ELSE /\ users' = [users EXCEPT ![target] = NoUser]
          /\ send(Handled(r, hdr, ck, g, 200, "Kullanici basariyla silindi", "-"))

\* POST /api/admin/users/bulk-action behind verifyToken and adminOnly:
\* User.updateMany({_id: {$in: userIds}}, updateQuery) for the actions
\* activate, deactivate and changeRole (with the role in value).
BulkActions == {"activate", "deactivate", "changeRole"}

BulkUserAction(hdr, ck, userIds, action, value) ==
  LET r == "admin/users/bulk-action"
      g == guard(r, hdr, ck) IN
  /\ UNCHANGED <<students, now>>
  /\ IF ~g.pass
       THEN send(Rejected(r, hdr, ck, g)) /\ UNCHANGED users
     ELSE IF userIds = {}
       THEN /\ send(Handled(r, hdr, ck, g, 400, "Gecerli kullanici ID'leri gereklidir", "-"))
            /\ UNCHANGED users
     ELSE /\ users' = [u \in StaffIds |->
                         IF u \in userIds /\ users[u].exists
                           THEN IF action = "activate"
                                  THEN [users[u] EXCEPT !.isActive = TRUE]
                                ELSE IF action = "deactivate"
                                  THEN [users[u] EXCEPT !.isActive = FALSE]
                                ELSE [users[u] EXCEPT !.userType = value]
                           ELSE users[u]]
          /\ send(Handled(r, hdr, ck, g, 200,
                          IF action = "activate" THEN "Kullanicilar aktif edildi"
                          ELSE IF action = "deactivate" THEN "Kullanicilar pasif edildi"
                          ELSE "Kullanici rolleri degistirildi", "-"))

(* ------------------------------------------- routes/users.js (/api/users) *)

\* The isActive key of a request body: left out, true or false.
ActiveInputs == {"undefined", "true", "false"}

\* PUT /api/users/:id behind verifyToken: the requester itself or an admin
\* (by req.user.userType); the email must not belong to another record;
\* isActive is taken over only for an admin.  email "-" is a body without
\* email.  name, surname, phone and department are no fields of the model
\* record.
UsersUpdate(hdr, ck, target, isActive, email) ==
  LET r == "users/update"
      g == verifyToken(hdr, ck) IN
  /\ UNCHANGED <<students, now>>
  /\ IF ~g.pass
       THEN send(Rejected(r, hdr, ck, g)) /\ UNCHANGED users
     ELSE IF ~findUser(target)
       THEN /\ send(Handled(r, hdr, ck, g, 404, "Kullanici bulunamadi", "-"))
            /\ UNCHANGED users
     ELSE IF g.user.id # target /\ g.user.userType # "admin"
       THEN /\ send(Handled(r, hdr, ck, g, 403, "Bu islem icin yetkiniz yok", "-"))
            /\ UNCHANGED users
     ELSE IF email # "-" /\ email # users[target].email /\ userByEmail(email) # {}
       THEN /\ send(Handled(r, hdr, ck, g, 400, "Bu email adresi zaten kullaniliyor", "-"))
            /\ UNCHANGED users
     ELSE /\ users' = [users EXCEPT
                         ![target].email = IF email # "-" THEN email ELSE @,
                         ![target].isActive =
                            IF g.user.userType = "admin" /\ isActive # "undefined"
                              THEN isActive = "true" ELSE @]
          /\ send(Handled(r, hdr, ck, g, 200, "Kullanici basariyla guncellendi", target))

(* ------------------------------------- routes/students.js (/api/students) *)

\* Student.findOne(query): a teacher only sees the students it owns.
visibleStudent(user, sid) ==
  /\ findStudent(sid)
  /\ user.userType = "teacher" => students[sid].teacher = user.id

\* PUT /api/students/:id behind protect and authorize('teacher','admin'),
\* with the isActive field of the body.
StudentsUpdate(hdr, ck, sid, isActive) ==
  LET r == "students/update"
      g == guard(r, hdr, ck) IN
  /\ UNCHANGED <<users, now>>
  /\ IF ~g.pass
       THEN send(Rejected(r, hdr, ck, g)) /\ UNCHANGED students
     ELSE IF ~visibleStudent(g.user, sid)
       THEN /\ send(Handled(r, hdr, ck, g, 404, "Ogrenci bulunamadi", "-"))
            /\ UNCHANGED students
     ELSE /\ students' = [students EXCEPT ![sid].isActive = isActive]
          /\ send(Handled(r, hdr, ck, g, 200, "Ogrenci basariyla guncellendi", sid))

\* DELETE /api/students/:id behind protect and authorize('teacher','admin')
StudentsDelete(hdr, ck, sid) ==
  LET r == "students/delete"
      g == guard(r, hdr, ck) IN
  /\ UNCHANGED <<users, now>>
  /\ IF ~g.pass
       THEN send(Rejected(r, hdr, ck, g)) /\ UNCHANGED students
     ELSE IF ~visibleStudent(g.user, sid)
       THEN /\ send(Handled(r, hdr, ck, g, 404, "Ogrenci bulunamadi", "-"))
            /\ UNCHANGED students
     ELSE /\ students' = [students EXCEPT ![sid] = NoStudent]
          /\ send(Handled(r, hdr, ck, g, 200, "Ogrenci basariyla silindi", "-"))

(* ---------------------------------------------------- student creation *)

\* Display identities a creation request can carry: one value stands for
\* the triple (name, surname, class).
Names == {"n1", "n2"}

\* Student.findOne({ name, surname, class, teacher })
studentByName(name, teacher) ==
  {s \in StudentIds : /\ students[s].exists
                      /\ students[s].name = name
                      /\ students[s].teacher = teacher}

\* Student.create({..., studentNumber, teacher, password}): isActive
\* defaults to true, the pre-save hook hashes the password.
createStudent(number, name, teacher, pw) ==
  \E s \in StudentIds :
     /\ NumberOf(s) = number
     /\ students' = [students EXCEPT ![s] =
                       [exists |-> TRUE, isActive |-> TRUE, password |-> Hash(pw),
                        teacher |-> teacher, name |-> name]]

\* A creation handler that would write without looking for the number.
StudentsCreateNoNumberCheck(hdr, ck, number, name, pw) ==
  LET r == "students/create"
      g == guard(r, hdr, ck) IN
  /\ UNCHANGED <<users, now>>
  /\ IF ~g.pass
       THEN /\ send(WithBody(Rejected(r, hdr, ck, g), number, name, "-"))
            /\ UNCHANGED students
     ELSE IF studentByName(name, g.user.id) # {}
       THEN /\ send(WithBody(Handled(r, hdr, ck, g, 400, "Bu ogrenci zaten kayitli", "-"),
                             number, name, "-"))
            /\ UNCHANGED students
     ELSE /\ createStudent(number, name, g.user.id, pw)
          /\ send(WithBody(Handled(r, hdr, ck, g, 201, "Ogrenci basariyla olusturuldu",
                                   CHOOSE s \in StudentIds : NumberOf(s) = number),
                           number, name, "-"))

\* POST /api/students behind protect and authorize('teacher','admin'):
\* number in use, then same name/surname/class under the same teacher,
\* then the creation.
StudentsCreate(hdr, ck, number, name, pw) ==
  LET r == "students/create"
      g == guard(r, hdr, ck) IN
  /\ UNCHANGED <<users, now>>
  /\ IF ~g.pass
       THEN /\ send(WithBody(Rejected(r, hdr, ck, g), number, name, "-"))
            /\ UNCHANGED students
     ELSE IF studentByNumber(number) # {}
       THEN /\ send(WithBody(Handled(r, hdr, ck, g, 400,
                                     "Bu ogrenci numarasi zaten kullaniliyor", "-"),
                             number, name, "-"))
            /\ UNCHANGED students
     ELSE IF studentByName(name, g.user.id) # {}
       THEN /\ send(WithBody(Handled(r, hdr, ck, g, 400, "Bu ogrenci zaten kayitli", "-"),
                             number, name, "-"))
            /\ UNCHANGED students
     ELSE /\ createStudent(number, name, g.user.id, pw)
          /\ send(WithBody(Handled(r, hdr, ck, g, 201, "Ogrenci basariyla olusturuldu",
                                   CHOOSE s \in StudentIds : NumberOf(s) = number),
                           number, name, "-"))

\* POST /api/teacher/students (teacherController.addStudent) behind
\* verifyToken and teacherOnly: only the number is looked up.
AddStudent(hdr, ck, number, name, pw) ==
  LET r == "teacher/students/add"
      g == guard(r, hdr, ck) IN
  /\ UNCHANGED <<users, now>>
  /\ IF ~g.pass
       THEN /\ send(WithBody(Rejected(r, hdr, ck, g), number, name, "-"))
            /\ UNCHANGED students
     ELSE IF studentByNumber(number) # {}
       THEN /\ send(WithBody(Handled(r, hdr, ck, g, 400,
                                     "Bu ogrenci numarasi zaten kullaniliyor", "-"),
                             number, name, "-"))
            /\ UNCHANGED students
     ELSE /\ createStudent(number, name, g.user.id, pw)
          /\ send(WithBody(Handled(r, hdr, ck, g, 201, "Ogrenci basariyla eklendi",
                                   CHOOSE s \in StudentIds : NumberOf(s) = number),
                           number, name, "-"))

(* ---------------------------------- ownership and optional authentication *)

\* Values of req.params.id on a route behind an ownership check.
Params == {"-", "s1", "u1"}

\* A read route behind verifyToken and checkOwnership().
CheckOwnership(hdr, ck, param) ==
  LET r == "owned/checkOwnership"
      g == checkOwnership(param, verifyToken(hdr, ck)) IN
  /\ UNCHANGED <<users, students, now>>
  /\ IF ~g.pass
       THEN send(WithBody(Rejected(r, hdr, ck, g), "-", "-", param))
       ELSE send(WithBody(Handled(r, hdr, ck, g, 200, "-", g.user.id), "-", "-", param))

\* A read route behind checkOwnership() with no authentication middleware
\* in front of it.
CheckOwnershipAlone(hdr, ck, param) ==
  LET r == "owned/checkOwnershipAlone"
      g == checkOwnership(param, noAuth(hdr, ck)) IN
  /\ UNCHANGED <<users, students, now>>
  /\ IF ~g.pass
       THEN send(WithBody(Rejected(r, hdr, ck, g), "-", "-", param))
       ELSE send(WithBody(Handled(r, hdr, ck, g, 200, "-", g.user.id), "-", "-", param))

\* A read route behind protect and ownershipOrAdmin().
OwnershipOrAdmin(hdr, ck, param) ==
  LET r == "owned/ownershipOrAdmin"
      g == ownershipOrAdmin(param, protect(hdr, ck)) IN
  /\ UNCHANGED <<users, students, now>>
  /\ IF ~g.pass
       THEN send(WithBody(Rejected(r, hdr, ck, g), "-", "-", param))
       ELSE send(WithBody(Handled(r, hdr, ck, g, 200, "-", g.user.id), "-", "-", param))

\* A public read route behind optionalAuth of middleware/verifyToken.js.
OptionalAuth(hdr, ck) ==
  LET g == optionalAuth(hdr, ck) IN
  /\ UNCHANGED <<users, students, now>>
  /\ send(Handled("public/optionalAuth", hdr, ck, g, 200, "-", g.user.id))

\* A public read route behind optionalAuth of middleware/auth.js.
OptionalAuthLegacy(hdr, ck) ==
  LET g == optionalAuthLegacy(hdr, ck) IN
  /\ UNCHANGED <<users, students, now>>
  /\ send(Handled("public/optionalAuthLegacy", hdr, ck, g, 200, "-", g.user.id))

(* ------------------------------------------------------ read-only routes *)

\* Routes whose handler only reads: GET /api/analytics/weekly (teacherOnly
\* alone) and GET /api/student/dashboard (verifyToken, studentOnly).
ReadRoutes == {"analytics/weekly", "student/dashboard"}

GatedRead(r, hdr, ck) ==
  LET g == guard(r, hdr, ck) IN
  /\ UNCHANGED <<users, students, now>>
  /\ IF ~g.pass
       THEN send(Rejected(r, hdr, ck, g))
       ELSE send(Handled(r, hdr, ck, g, 200, "-", g.user.id))

(* ------------------------------------------------------ time, the client *)

\* The client has read the response: the exchange is over.
Receive ==
  /\ resp # Idle
  /\ resp' = Idle
  /\ UNCHANGED <<users, students, now, held, cookie>>
  /\ UNCHANGED tracking

Tick ==
  /\ resp = Idle
  /\ now < MaxClock
  /\ now' = now + 1
  /\ UNCHANGED <<users, students, held, cookie, resp>>
  /\ UNCHANGED tracking

\* The browser drops a cookie whose expiry has been reached.
PurgeCookie ==
  /\ resp = Idle
  /\ cookie # NoCookie
  /\ now >= cookie.exp
  /\ cookie' = NoCookie
  /\ UNCHANGED <<users, students, now, held, resp>>
  /\ UNCHANGED tracking

\* The requests of a session: logins, the guarded routes, the admin and
\* teacher operations that deactivate or delete a principal.  The admin
\* update leaves userType and email out of its body.
Request ==
  \/ \E e \in Emails, pw \in Passwords : Login(e, pw)
  \/ \E e \in Emails, pw \in Passwords : TeacherLogin(e, pw)
  \/ \E n \in Numbers, pw \in Passwords : StudentLogin(n, pw)
  \/ \E h \in Headers, c \in Cookies : Me(h, c)
  \/ \E h \in Headers, c \in Cookies : TeacherMe(h, c)
  \/ \E h \in Headers, c \in Cookies : Logout(h, c)
  \/ \E h \in Headers, c \in Cookies : TeacherLogout(h, c)
  \/ \E h \in Headers, c \in Cookies, u \in StaffIds, a \in BOOLEAN :
       AdminUpdateUser(h, c, u, a, users[u].userType, users[u].email)
  \/ \E h \in Headers, c \in Cookies, u \in StaffIds : AdminDeleteUser(h, c, u)
  \/ \E h \in Headers, c \in Cookies, st \in StudentIds, a \in BOOLEAN :
       StudentsUpdate(h, c, st, a)
  \/ \E r \in ReadRoutes, h \in Headers, c \in Cookies : GatedRead(r, h, c)

\* Requests are served one at a time.
Next ==
  \/ resp = Idle /\ Request
  \/ Receive
  \/ Tick
  \/ PurgeCookie

Spec == Init /\ [][Next]_vars

\* Every endpoint that creates a principal, checks a password or changes
\* one, with the operations that deactivate or delete principals.
RequestIssue ==
  \/ \E e \in Emails, pw \in Passwords : Register(e, pw)
  \/ \E e \in Emails, pw \in Passwords : TeacherRegister(e, pw)
  \/ \E e \in Emails, pw \in Passwords : Login(e, pw)
  \/ \E e \in Emails, pw \in Passwords : TeacherLogin(e, pw)
  \/ \E n \in Numbers, pw \in Passwords : StudentLogin(n, pw)
  \/ \E n \in Numbers, pw \in Passwords : TeacherStudentLogin(n, pw)
  \/ \E n \in Numbers, pw \in Passwords : StudentAuthLogin(n, pw)
  \/ \E h \in Headers, c \in Cookies, p \in Passwords, q \in Passwords :
       UpdatePassword(h, c, p, q)
  \/ \E h \in Headers, c \in Cookies, p \in Passwords, q \in Passwords :
       TeacherUpdatePassword(h, c, p, q)
  \/ \E h \in Headers, c \in Cookies : StudentAuthUpdatePassword(h, c)
  \/ \E h \in Headers, c \in Cookies, u \in StaffIds, a \in BOOLEAN :
       AdminUpdateUser(h, c, u, a, users[u].userType, users[u].email)
  \/ \E h \in Headers, c \in Cookies, u \in StaffIds : AdminDeleteUser(h, c, u)
  \/ \E h \in Headers, c \in Cookies, st \in StudentIds, a \in BOOLEAN :
       StudentsUpdate(h, c, st, a)
  \/ \E h \in Headers, c \in Cookies, st \in StudentIds : StudentsDelete(h, c, st)

NextIssue ==
  \/ resp = Idle /\ RequestIssue
  \/ Receive
  \/ Tick
  \/ PurgeCookie

SpecIssue == Init /\ [][NextIssue]_vars

\* The student administration of teachers and admins: staff logins, the
\* two creation routes and the deletion.
RequestStudents ==
  \/ \E e \in Emails, pw \in Passwords : Login(e, pw)
  \/ \E e \in Emails, pw \in Passwords : TeacherLogin(e, pw)
  \/ \E h \in Headers, c \in Cookies, n \in Numbers, nm \in Names :
       StudentsCreate(h, c, n, nm, "p1")
  \/ \E h \in Headers, c \in Cookies, n \in Numbers, nm \in Names :
       AddStudent(h, c, n, nm, "p1")
  \/ \E h \in Headers, c \in Cookies, st \in StudentIds : StudentsDelete(h, c, st)

NextStudents ==
  \/ resp = Idle /\ RequestStudents
  \/ Receive
  \/ Tick
  \/ PurgeCookie

SpecStudents == Init /\ [][NextStudents]_vars

\* Logins of the three kinds, the operations that deactivate or delete a
\* principal, and the routes behind the ownership checks and the optional
\* authentication.
RequestAccess ==
  \/ \E e \in Emails, pw \in Passwords : TeacherLogin(e, pw)
  \/ \E n \in Numbers, pw \in Passwords : StudentLogin(n, pw)
  \/ \E h \in Headers, c \in Cookies, u \in StaffIds, a \in BOOLEAN :
       AdminUpdateUser(h, c, u, a, users[u].userType, users[u].email)
  \/ \E h \in Headers, c \in Cookies, u \in StaffIds : AdminDeleteUser(h, c, u)
  \/ \E h \in Headers, c \in Cookies, st \in StudentIds, a \in BOOLEAN :
       StudentsUpdate(h, c, st, a)
  \/ \E h \in Headers, c \in Cookies, x \in Params : CheckOwnership(h, c, x)
  \/ \E h \in Headers, c \in Cookies, x \in Params : OwnershipOrAdmin(h, c, x)
  \/ \E h \in Headers, c \in Cookies : OptionalAuth(h, c)
  \/ \E h \in Headers, c \in Cookies : OptionalAuthLegacy(h, c)

NextAccess ==
  \/ resp = Idle /\ RequestAccess
  \/ Receive
  \/ Tick
  \/ PurgeCookie

SpecAccess == Init /\ [][NextAccess]_vars

\* Logins of staff and students, and read routes behind the role gates
\* and the ownership check, with and without an authentication middleware
\* in front.
RequestAuthorize ==
  \/ \E e \in Emails, pw \in Passwords : TeacherLogin(e, pw)
  \/ \E n \in Numbers, pw \in Passwords : StudentLogin(n, pw)
  \/ \E r \in ReadRoutes, h \in Headers, c \in Cookies : GatedRead(r, h, c)
  \/ \E h \in Headers, c \in Cookies, x \in Params : CheckOwnership(h, c, x)
  \/ \E h \in Headers, c \in Cookies, x \in Params : CheckOwnershipAlone(h, c, x)

NextAuthorize ==
  \/ resp = Idle /\ RequestAuthorize
  \/ Receive
  \/ Tick
  \/ PurgeCookie

SpecAuthorize == Init /\ [][NextAuthorize]_vars

\* Emails an admin can write into a Staff record.
AdminEmails == Emails \cup {"z@x.com"}

\* The admin console: a staff login and the three user operations of
\* controllers/adminController.js.  Kinds are changed through the bulk
\* action; the single update sends the active flag and the email.
RequestAdmin ==
  \/ \E e \in AdminEmails, pw \in Passwords : TeacherLogin(e, pw)
  \/ \E h \in Headers, c \in Cookies, u \in StaffIds, a \in BOOLEAN, e \in AdminEmails :
       AdminUpdateUser(h, c, u, a, users[u].userType, e)
  \/ \E h \in Headers, c \in Cookies, u \in StaffIds : AdminDeleteUser(h, c, u)
  \/ \E h \in Headers, c \in Cookies, ids \in SUBSET StaffIds, a \in BulkActions :
       \E k \in IF a = "changeRole" THEN {"teacher", "admin"} ELSE {"-"} :
          BulkUserAction(h, c, ids, a, k)

NextAdmin ==
  \/ resp = Idle /\ RequestAdmin
  \/ Receive
  \/ Tick
  \/ PurgeCookie

SpecAdmin == Init /\ [][NextAdmin]_vars

\* The self-service update of a Staff principal next to the admin
\* operations that change a kind or an active flag.
RequestSelf ==
  \/ \E e \in Emails, pw \in Passwords : TeacherLogin(e, pw)
  \/ \E h \in Headers, c \in Cookies, u \in StaffIds, a \in ActiveInputs,
        e \in {"-"} \cup Emails :
       UsersUpdate(h, c, u, a, e)
  \/ \E h \in Headers, c \in Cookies, ids \in SUBSET StaffIds, a \in BulkActions :
       \E k \in IF a = "changeRole" THEN {"teacher", "admin"} ELSE {"-"} :
          BulkUserAction(h, c, ids, a, k)

NextSelf ==
  \/ resp = Idle /\ RequestSelf
  \/ Receive
  \/ Tick
  \/ PurgeCookie

SpecSelf == Init /\ [][NextSelf]_vars

(* ------------------------- middleware/analytics.js, visitorTracking.js *)

\* User-agent strings and request paths, by what the trackers test: a
\* browser and a crawler that matches BOT_PATTERNS; a page, an /api path
\* (not /api/health) and a static file (/uploads, /favicon, robots.txt).
UserAgents == {"Mozilla", "Googlebot"}
Paths == {"page", "api", "static"}

\* isBot(userAgentString): BOT_PATTERNS.some(pattern => pattern.test(...))
isBot(ua) == ua \in {"Googlebot"}

\* OnlineUser.getOnlineCount(): the documents whose lastActivity is inside
\* the window.  OnlineSessions is the $match of getOnlineByRole.
OnlineSessions ==
  {s \in SessionIds : online[s].exists /\ online[s].lastActivity >= now - PresenceWindow}
getOnlineCount == Cardinality(OnlineSessions)

\* Requests of session s that are inside the middleware.
InFlight(s) == {q \in ProcIds : proc[q].pc # "idle" /\ proc[q].sid = s}

\* What the middlewares mounted before the analytics middleware have
\* attached to a request that carries the Authorization header hdr: the
\* authentication middlewares are mounted on the routers only, behind
\* app.use(analytics), so req.user, req.student and req.teacher are unset.
attachedAtAnalytics(hdr) ==
  [user |-> Anonymous, student |-> Anonymous, teacher |-> Anonymous]

\* getUserRole(req).  The User schema has userType and no role field, so
\* for a req.user both tests of req.user.role fail and 'teacher' is
\* returned.
getUserRole(req) ==
  IF req.user # Anonymous THEN "teacher"
  ELSE IF req.student # Anonymous THEN "student"
  ELSE IF req.teacher # Anonymous THEN "teacher"
  ELSE "guest"

\* isAuthenticated = !!(req.user || req.student || req.teacher)
isAuthenticated(req) ==
  req.user # Anonymous \/ req.student # Anonymous \/ req.teacher # Anonymous

\* app.use(analytics): a request of client c enters the middleware with
\* req.sessionID s, the Authorization header hdr and the Referrer header.
ArriveWith(p, s, ua, path, hdr, referrer, c) ==
  /\ proc[p].pc = "idle"
  /\ Len(visits[s].pages) + Cardinality(InFlight(s)) < MaxVisits
  /\ proc' = [proc EXCEPT ![p] = [IdleProc EXCEPT !.pc = "presence", !.sid = s,
                                                  !.ua = ua, !.path = path,
                                                  !.hdr = hdr, !.referrer = referrer,
                                                  !.client = c]]
  /\ UNCHANGED <<online, visits, siteStats, now>>
  /\ UNCHANGED session

\* A request of one client with no Authorization and no Referrer header.
Arrive(p, s, ua, path) == ArriveWith(p, s, ua, path, NoHeader, "direct", "c1")

\* The presence record the upsert of trackOnlineUser writes for request r.
presenceOf(r) ==
  [exists |-> TRUE, lastActivity |-> now,
   userRole |-> getUserRole(attachedAtAnalytics(r.hdr)),
   isAuthenticated |-> isAuthenticated(attachedAtAnalytics(r.hdr)),
   hdr |-> r.hdr, client |-> r.client]

\* The Visit Record the upsert of trackVisitor inserts for request r.
insertedVisit(r, bot) ==
  [exists |-> TRUE, visitCount |-> 0, pages |-> << >>, isBot |-> bot,
   firstVisit |-> now, lastVisit |-> now, referrer |-> r.referrer]

\* A presence tracker that would write lastActivity only when it inserts.
TrackOnlineInsertOnly(p) ==
  LET r == proc[p] IN
  /\ r.pc = "presence"
  /\ UNCHANGED <<visits, siteStats, now>>
  /\ UNCHANGED session
  /\ IF r.path = "static" \/ isBot(r.ua)
       THEN /\ proc' = [proc EXCEPT ![p].pc = "visit", ![p].presence = "skipped"]
            /\ UNCHANGED online
       ELSE \E ok \in BOOLEAN :
              IF ok
                THEN /\ online' = [online EXCEPT ![r.sid] =
                                     IF online[r.sid].exists THEN online[r.sid]
                                     ELSE presenceOf(r)]
                     /\ proc' = [proc EXCEPT
                                   ![p].pc = "visit", ![p].presence = "written",
                                   ![p].wasStale = /\ online[r.sid].exists
                                                   /\ r.sid \notin OnlineSessions]
                ELSE /\ proc' = [proc EXCEPT ![p].pc = "visit", ![p].presence = "failed"]
                     /\ UNCHANGED online

\* await trackOnlineUser(req, res, () => {}): skip list, bot check, then
\* the upsert by sessionId that sets lastActivity; a store error is caught.
TrackOnline(p) ==
  LET r == proc[p] IN
  /\ r.pc = "presence"
  /\ UNCHANGED <<visits, siteStats, now>>
  /\ UNCHANGED session
  /\ IF r.path = "static" \/ isBot(r.ua)
       THEN /\ proc' = [proc EXCEPT ![p].pc = "visit", ![p].presence = "skipped"]
            /\ UNCHANGED online
       ELSE \E ok \in BOOLEAN :
              IF ok
                THEN /\ online' = [online EXCEPT ![r.sid] =
                                     presenceOf(r)]
                     /\ proc' = [proc EXCEPT
                                   ![p].pc = "visit", ![p].presence = "written",
                                   ![p].wasStale = /\ online[r.sid].exists
                                                   /\ r.sid \notin OnlineSessions]
                ELSE /\ proc' = [proc EXCEPT ![p].pc = "visit", ![p].presence = "failed"]
                     /\ UNCHANGED online

\* A visit tracker that would record crawlers with the bot flag set.
TrackVisitorUpsertFlagsBots(p) ==
  LET r == proc[p] IN
  /\ r.pc = "visit"
  /\ UNCHANGED <<online, siteStats, now>>
  /\ UNCHANGED session
  /\ IF r.path \in {"api", "static"}
       THEN /\ proc' = [proc EXCEPT ![p].pc = "next", ![p].visit = "skipped"]
            /\ UNCHANGED visits
       ELSE \E ok \in BOOLEAN :
              IF ok
                THEN /\ visits' = [visits EXCEPT ![r.sid] =
                                     IF visits[r.sid].exists
                                       THEN [visits[r.sid] EXCEPT !.isBot = isBot(r.ua),
                                                                  !.lastVisit = now]
                                       ELSE insertedVisit(r, isBot(r.ua))]
                     /\ proc' = [proc EXCEPT ![p].pc = "save", ![p].visit = "loaded",
                                             ![p].loaded = visits[r.sid].visitCount]
                ELSE /\ proc' = [proc EXCEPT ![p].pc = "next", ![p].visit = "failed"]
                     /\ UNCHANGED visits

\* trackVisitor, first await: skip list, bot check, then
\* Visitor.findOneAndUpdate({ip, sessionId}, ..., {upsert, new}).  The
\* returned document is the copy the handler goes on working with.  A
\* store error (the duplicate key of two racing inserts included) is
\* caught and ends the tracker.
TrackVisitorUpsert(p) ==
  LET r == proc[p] IN
  /\ r.pc = "visit"
  /\ UNCHANGED <<online, siteStats, now>>
  /\ UNCHANGED session
  /\ IF r.path \in {"api", "static"} \/ isBot(r.ua)
       THEN /\ proc' = [proc EXCEPT ![p].pc = "next", ![p].visit = "skipped"]
            /\ UNCHANGED visits
       ELSE \E ok \in BOOLEAN :
              IF ok
                THEN /\ visits' = [visits EXCEPT ![r.sid] =
                                     IF visits[r.sid].exists
                                       THEN [visits[r.sid] EXCEPT !.isBot = FALSE,
                                                                  !.lastVisit = now]
                                       ELSE insertedVisit(r, FALSE)]
                     /\ proc' = [proc EXCEPT ![p].pc = "save", ![p].visit = "loaded",
                                             ![p].loaded = visits[r.sid].visitCount]
                ELSE /\ proc' = [proc EXCEPT ![p].pc = "next", ![p].visit = "failed"]
                     /\ UNCHANGED visits

\* A save that writes the counter and the timestamp and loses the pushed
\* page-visit entry.
TrackVisitorSaveCountOnly(p) ==
  LET r == proc[p] IN
  /\ r.pc = "save"
  /\ UNCHANGED <<online, siteStats, now>>
  /\ UNCHANGED session
  /\ \E ok \in BOOLEAN :
       IF ok
         THEN /\ visits' = [visits EXCEPT ![r.sid].visitCount = r.loaded + 1,
                                          ![r.sid].lastVisit = now]
              /\ proc' = [proc EXCEPT ![p].pc = "stats", ![p].visit = "saved"]
         ELSE /\ proc' = [proc EXCEPT ![p].pc = "next", ![p].visit = "failed"]
              /\ UNCHANGED visits

\* trackVisitor, second await: visitor.pages.push(...), visitor.visitCount
\* += 1, visitor.lastVisit = new Date(), visitor.save().  Mongoose sends
\* the array push as $push and the counter and the timestamp as $set of
\* the values computed from the loaded copy.
TrackVisitorSave(p) ==
  LET r == proc[p] IN
  /\ r.pc = "save"
  /\ UNCHANGED <<online, siteStats, now>>
  /\ UNCHANGED session
  /\ \E ok \in BOOLEAN :
       IF ok
         THEN /\ visits' = [visits EXCEPT ![r.sid].visitCount = r.loaded + 1,
                                          ![r.sid].pages = Append(@, now),
                                          ![r.sid].lastVisit = now]
              /\ proc' = [proc EXCEPT ![p].pc = "stats", ![p].visit = "saved"]
         ELSE /\ proc' = [proc EXCEPT ![p].pc = "next", ![p].visit = "failed"]
              /\ UNCHANGED visits

\* trackVisitor, third await: updateSiteStats() increments totalPageViews
\* with $inc (its own errors are swallowed and change nothing else).
UpdateSiteStats(p) ==
  /\ proc[p].pc = "stats"
  /\ UNCHANGED <<online, visits, now>>
  /\ UNCHANGED session
  /\ siteStats' = siteStats + 1
  /\ proc' = [proc EXCEPT ![p].pc = "next"]

\* A middleware that would hand over only when both trackers succeeded.
CallNextUnlessFailed(p) ==
  /\ proc[p].pc = "next"
  /\ proc' = [proc EXCEPT ![p].pc = "done",
                          ![p].nexts = IF "failed" \in {proc[p].presence, proc[p].visit}
                                         THEN @ ELSE @ + 1]
  /\ UNCHANGED <<online, visits, siteStats, now>>
  /\ UNCHANGED session

\* analytics: next() after both awaits; the trackers have caught their
\* errors, so the catch of the middleware is not entered.
CallNext(p) ==
  /\ proc[p].pc = "next"
  /\ proc' = [proc EXCEPT ![p].pc = "done", ![p].nexts = @ + 1]
  /\ UNCHANGED <<online, visits, siteStats, now>>
  /\ UNCHANGED session

\* session({resave: false, saveUninitialized: false, ...}): a new session
\* that no handler has written to is neither stored nor announced to the
\* client.  No handler or middleware writes to req.session.
saveUninitialized == FALSE
sessionModified == FALSE

\* The session middleware at the start of a request of client c: the
\* session of the cookie the client sends, else a newly generated
\* identifier, which no record carries yet.
FreshIds ==
  {s \in SessionIds : ~online[s].exists /\ ~visits[s].exists /\ InFlight(s) = {}}
sessionIdsFor(c) ==
  IF sessionCookie[c] # "-" THEN {sessionCookie[c]} ELSE FreshIds

\* A request of client c enters the middleware with the req.sessionID the
\* session middleware gave it.
ArriveFrom(p, c, ua, path) ==
  \E s \in sessionIdsFor(c) : ArriveWith(p, s, ua, path, NoHeader, "direct", c)

\* The rest of the request is served and the response is written: the
\* session middleware sets its cookie only for a session it saves.  The
\* slot is free again.
Finish(p) ==
  /\ proc[p].pc = "done"
  /\ proc' = [proc EXCEPT ![p] = IdleProc]
  /\ sessionCookie' =
       IF saveUninitialized \/ sessionModified
         THEN [sessionCookie EXCEPT ![proc[p].client] = proc[p].sid]
         ELSE sessionCookie
  /\ UNCHANGED <<online, visits, siteStats, now>>
  /\ UNCHANGED <<users, students, held, cookie, resp>>

\* The TTL monitor of the store deletes a presence record some time after
\* lastActivity + 1800 s.
ExpireOnline(s) ==
  /\ online[s].exists
  /\ online[s].lastActivity + PresenceTtl < now
  /\ online' = [online EXCEPT ![s] = NoPresence]
  /\ UNCHANGED <<visits, siteStats, proc, now>>
  /\ UNCHANGED session

\* Slot p is the first free one: requests take the slots in order.
FirstFree(p) == proc[p].pc = "idle" /\ \A q \in ProcIds : q < p => proc[q].pc # "idle"

\* Requests pass the analytics middleware concurrently: every await is a
\* point where another request can run.
NextAnalytics ==
  \/ \E p \in ProcIds, s \in SessionIds, ua \in UserAgents, path \in Paths :
       FirstFree(p) /\ Arrive(p, s, ua, path)
  \/ \E p \in ProcIds : TrackOnline(p)
  \/ \E p \in ProcIds : TrackVisitorUpsert(p)
  \/ \E p \in ProcIds : TrackVisitorSave(p)
  \/ \E p \in ProcIds : UpdateSiteStats(p)
  \/ \E p \in ProcIds : CallNext(p)
  \/ \E p \in ProcIds : Finish(p)

SpecAnalytics == Init /\ [][NextAnalytics]_vars

\* No request is inside the middleware.
Quiet == \A p \in ProcIds : proc[p].pc = "idle"

\* Requests that come one after the other, over the time in which
\* presence records grow old and the TTL monitor removes them.
NextPresence ==
  \/ \E p \in ProcIds, s \in SessionIds, ua \in UserAgents, path \in Paths :
       Quiet /\ FirstFree(p) /\ Arrive(p, s, ua, path)
  \/ \E p \in ProcIds : TrackOnline(p)
  \/ \E p \in ProcIds : TrackVisitorUpsert(p)
  \/ \E p \in ProcIds : TrackVisitorSave(p)
  \/ \E p \in ProcIds : UpdateSiteStats(p)
  \/ \E p \in ProcIds : CallNext(p)
  \/ \E p \in ProcIds : Finish(p)
  \/ \E s \in SessionIds : ExpireOnline(s)
  \/ Tick

SpecPresence == Init /\ [][NextPresence]_vars

\* The page-view requests of one client session, one after the other, with
\* or without a Referrer header, over several calendar days.  A request
\* reads and writes only the Visit Record of its own (ip, session) pair.
NextVisits ==
  \/ \E p \in ProcIds, ua \in UserAgents, referrer \in Referrers :
       Quiet /\ FirstFree(p) /\ ArriveWith(p, "g1", ua, "page", NoHeader, referrer, "c1")
  \/ \E p \in ProcIds : TrackOnline(p)
  \/ \E p \in ProcIds : TrackVisitorUpsert(p)
  \/ \E p \in ProcIds : TrackVisitorSave(p)
  \/ \E p \in ProcIds : UpdateSiteStats(p)
  \/ \E p \in ProcIds : CallNext(p)
  \/ \E p \in ProcIds : Finish(p)
  \/ Tick

SpecVisits == Init /\ [][NextVisits]_vars

\* Requests of the clients, one after the other, each under the session
\* identifier the session middleware gives it, over the time in which
\* presence records grow old and are removed.
NextSession ==
  \/ \E p \in ProcIds, c \in Clients, ua \in UserAgents, path \in Paths :
       Quiet /\ FirstFree(p) /\ ArriveFrom(p, c, ua, path)
  \/ \E p \in ProcIds : TrackOnline(p)
  \/ \E p \in ProcIds : TrackVisitorUpsert(p)
  \/ \E p \in ProcIds : TrackVisitorSave(p)
  \/ \E p \in ProcIds : UpdateSiteStats(p)
  \/ \E p \in ProcIds : CallNext(p)
  \/ \E p \in ProcIds : Finish(p)
  \/ \E s \in SessionIds : ExpireOnline(s)
  \/ Tick

SpecSession == Init /\ [][NextSession]_vars

\* The Authorization headers of tracked requests: none, or a token issued
\* at instant 0 to the admin, the teacher or the student of the store.
TrackedHeaders ==
  {NoHeader} \cup {Bearer(generateToken("u1", "admin", 0)),
                   Bearer(generateToken("u2", "teacher", 0)),
                   Bearer(generateToken("s1", "student", 0))}

\* Requests of guests and of logged-in principals, one after the other.
NextRoles ==
  \/ \E p \in ProcIds, s \in SessionIds, ua \in UserAgents, path \in Paths,
        hdr \in TrackedHeaders :
       Quiet /\ FirstFree(p) /\ ArriveWith(p, s, ua, path, hdr, "direct", "c1")
  \/ \E p \in ProcIds : TrackOnline(p)
  \/ \E p \in ProcIds : TrackVisitorUpsert(p)
  \/ \E p \in ProcIds : TrackVisitorSave(p)
  \/ \E p \in ProcIds : UpdateSiteStats(p)
  \/ \E p \in ProcIds : CallNext(p)
  \/ \E p \in ProcIds : Finish(p)

SpecRoles == Init /\ [][NextRoles]_vars

\* OnlineUser.getOnlineByRole(): the count of the group of one userRole.
getOnlineByRole(role) ==
  Cardinality({s \in OnlineSessions : online[s].userRole = role})

(* ------------------- controllers/analyticsController.js, models/Analytics *)

\* The calendar day of a timestamp: one tick of the clock is one day.
dayOf(t) == t

\* The ranges of the weekly and of the monthly rollup (one month back),
\* in days.
WeekDays == 7
MonthDays == 30

\* { $sum: { $size: '$pages' } } over the Visit Records of the set S.
RECURSIVE SumPages(_)
SumPages(S) ==
  IF S = {} THEN 0
  ELSE LET s == CHOOSE x \in S : TRUE
       IN  Len(visits[s].pages) + SumPages(S \ {s})

\* The pageViews of the bucket of day d in a rollup over the last `days`
\* days: $match on lastVisit, $group by year, month and day of lastVisit.
rollupPageViews(days, d) ==
  SumPages({s \in SessionIds : /\ visits[s].exists
                               /\ visits[s].lastVisit >= now - days
                               /\ visits[s].lastVisit <= now
                               /\ dayOf(visits[s].lastVisit) = d})

\* getWeeklyStats and getMonthlyStats: pageViews of the bucket of day d.
getWeeklyStats(d) == rollupPageViews(WeekDays, d)
getMonthlyStats(d) == rollupPageViews(MonthDays, d)

\* Visitor.getTodayStats(): totalPageViews of the records whose lastVisit
\* lies in [today, tomorrow).
getTodayStats ==
  SumPages({s \in SessionIds : /\ visits[s].exists
                               /\ dayOf(visits[s].lastVisit) = dayOf(now)})

(* ================================================================ claims *)

TypeOK ==
  /\ now \in 0..MaxClock
  /\ \A u \in StaffIds : users[u].userType \in UserTypes
  /\ resp.status \in {0, 200, 201, 400, 401, 403, 404, 500}

\* Routes behind one of the two strict authentication middlewares.
StrictRoutes == ProtectRoutes \cup VerifyTokenRoutes

\* The token of a request that carries exactly one credential (a Bearer
\* header with a token and no cookie, or a cookie and no header), and the
\* state its principal had when the request was served.
Presented(r) ==
  IF r.hdr.scheme = "Bearer" /\ r.hdr.tok # NoTok /\ r.ck = NoTok THEN r.hdr.tok
  ELSE IF r.hdr = NoHeader THEN r.ck
  ELSE NoTok
PresentedState(r) ==
  IF r.hdr.scheme = "Bearer" /\ r.hdr.tok # NoTok /\ r.ck = NoTok THEN r.hp
  ELSE IF r.hdr = NoHeader THEN r.cp
  ELSE "none"

\* The request presented one correctly signed token that had not expired.
PresentedLive(r) == Presented(r).sig = "ok" /\ r.at < Presented(r).exp

\* C1: a request that presents a signed, unexpired token of a deactivated
\* principal to a strict authentication middleware gets 401 with code
\* ACCOUNT_DEACTIVATED and the handler does not run.
C1_DeactivatedRejectedWithCode ==
  (/\ resp.route \in StrictRoutes
   /\ PresentedLive(resp)
   /\ PresentedState(resp) = "inactive")
  => (resp.status = 401 /\ resp.code = "ACCOUNT_DEACTIVATED" /\ ~resp.ran)

\* C2: on a role-gated route, an active principal with a live token whose
\* role is not allowed gets 403 with code INSUFFICIENT_PERMISSION, never
\* 401 and never the handler.
C2_WrongRoleGets403WithCode ==
  (/\ resp.route \in GuardedRoutes
   /\ gateOf(resp.route) # "none"
   /\ PresentedLive(resp)
   /\ PresentedState(resp) = "active"
   /\ Presented(resp).userType \notin rolesOf(resp.route))
  => (resp.status = 403 /\ resp.code = "INSUFFICIENT_PERMISSION" /\ ~resp.ran)

\* C3: a 'get current principal' request that presents (header only or
\* cookie only) the live token a staff login returned for a still active
\* Staff principal answers 200 with the subject id of that login.
MeRoutes == {"auth/me", "auth/teacher/me"}
C3_LoginThenMeSameSubject ==
  (/\ resp.route \in MeRoutes
   /\ PresentedLive(resp)
   /\ Presented(resp).userType \in {"teacher", "admin"}
   /\ PresentedState(resp) = "active")
  => (resp.status = 200 /\ resp.uid = Presented(resp).id)

\* The stored record a token was issued for.
SubjectOf(tok) ==
  IF tok.id \in StudentIds THEN students[tok.id] ELSE users[tok.id]

\* C4: whenever a response delivers a session token, in the body or as
\* cookie, the principal it names exists and is active.
C4_NoSessionForInactive ==
  \A t \in {resp.tok, resp.setCookie} :
     t.sig = "ok" => (SubjectOf(t).exists /\ SubjectOf(t).isActive)

\* C4 witness: a login was refused because the account is deactivated.
C4_Witness ==
  /\ resp.route \in {"auth/login", "auth/teacher/login", "auth/student-login",
                     "auth/teacher/student-login"}
  /\ resp.msg = "Hesabiniz deaktif durumda"
  /\ resp.tok = NoTok /\ resp.setCookie = NoTok
  /\ \E u \in StaffIds : users[u].exists /\ ~users[u].isActive

\* The header of the request carries a token that cannot authenticate.
HeaderDead(r) ==
  r.hdr.tok.sig # "ok" \/ r.at >= r.hdr.tok.exp \/ r.hp # "active"

\* C5: when a request to a strict route carries a Bearer token and a token
\* cookie, the principal is the one of the header token or nobody; a header
\* token that cannot authenticate is rejected with 401 whatever the cookie.
C5_HeaderDecidesAlone ==
  (/\ resp.route \in StrictRoutes
   /\ resp.hdr.scheme = "Bearer" /\ resp.hdr.tok # NoTok
   /\ resp.ck # NoTok)
  => /\ resp.principal \in {"-", resp.hdr.tok.id}
     /\ HeaderDead(resp) => (resp.status = 401 /\ resp.principal = "-" /\ ~resp.ran)

\* C5 witness: an unusable header token next to a live cookie of an active
\* principal, rejected.
C5_Witness ==
  /\ resp.route \in StrictRoutes
  /\ resp.hdr.scheme = "Bearer" /\ resp.hdr.tok # NoTok /\ HeaderDead(resp)
  /\ resp.ck.sig = "ok" /\ resp.at < resp.ck.exp /\ resp.cp = "active"
  /\ resp.status = 401

\* C6: a strict authentication middleware answers NO_TOKEN only when
\* neither header nor cookie carries a token, and a live cookie next to an
\* Authorization header without a token value authenticates its principal.
C6_NoTokenOnlyWithoutCredentials ==
  /\ (resp.route \in StrictRoutes /\ resp.code = "NO_TOKEN")
       => (resp.hdr.tok = NoTok /\ resp.ck = NoTok)
  /\ (/\ resp.route \in StrictRoutes
      /\ resp.hdr = BearerEmpty
      /\ resp.ck.sig = "ok" /\ resp.at < resp.ck.exp /\ resp.cp = "active")
       => (resp.by \notin {"verifyToken", "protect"} /\ resp.principal = resp.ck.id)

ExpectedCode(r) ==
  IF Presented(r) = NoTok THEN "NO_TOKEN"
  ELSE IF Presented(r).sig # "ok" THEN "TOKEN_MALFORMED"
  ELSE IF r.at >= Presented(r).exp THEN "TOKEN_EXPIRED"
  ELSE IF PresentedState(r) = "unknown-kind" THEN "INVALID_USER_TYPE"
  ELSE IF PresentedState(r) = "missing" THEN "USER_NOT_FOUND"
  ELSE "ACCOUNT_DEACTIVATED"

\* C8: every rejection by a strict authentication middleware is a 401 with
\* one code of the six, the one the state machine assigns.
C8_RejectionsCarryCode ==
  resp.by \in {"verifyToken", "protect"}
  => /\ resp.status = 401
     /\ resp.code \in {"NO_TOKEN", "TOKEN_EXPIRED", "TOKEN_MALFORMED",
                       "USER_NOT_FOUND", "ACCOUNT_DEACTIVATED", "INVALID_USER_TYPE"}
     /\ (resp.hdr = NoHeader \/ resp.ck = NoTok) => resp.code = ExpectedCode(resp)

\* C9: a logout answers with the cookie 'none' that expires within the
\* tick, sooner than a session cookie, and leaves both collections as they
\* were; right after it the token that authenticated the logout still
\* authenticates the same principal from the Authorization header, and a
\* request with only the overwritten cookie is rejected by both strict
\* middlewares.
LogoutRoutes == {"auth/logout", "auth/teacher/logout"}
LoggedOut == resp.route \in LogoutRoutes /\ resp.status = 200
C9_LogoutOnlyOverwritesCookie ==
  /\ [](LoggedOut =>
          /\ resp.setCookie = NoneTok
          /\ cookie = [val |-> NoneTok, exp |-> resp.at + LogoutCookieTicks]
          /\ cookie.exp < resp.at + TokenTtl
          /\ \A t \in {extractToken(resp.hdr, resp.ck)} :
               /\ verifyToken(Bearer(t), cookie.val).pass
               /\ verifyToken(Bearer(t), cookie.val).user.id = resp.principal
               /\ protect(Bearer(t), cookie.val).pass
               /\ protect(Bearer(t), cookie.val).user.id = resp.principal
          /\ ~verifyToken(NoHeader, cookie.val).pass
          /\ ~protect(NoHeader, cookie.val).pass)
  /\ []((resp.route \in StrictRoutes /\ resp.hdr = NoHeader /\ resp.ck = NoneTok)
          => (resp.status = 401 /\ ~resp.ran))
  /\ [][LoggedOut' => (users' = users /\ students' = students)]_vars

\* C9 witness: with the sentinel cookie in the jar after a logout, the
\* token sent in the header is still accepted by GET /me.
C9_Witness ==
  /\ resp.route = "auth/me" /\ resp.status = 200
  /\ resp.hdr.scheme = "Bearer" /\ resp.ck = NoneTok
  /\ resp.principal = resp.hdr.tok.id

\* C10: a student-login attempt without the correct password of an
\* existing account gets the status and message an unknown student number
\* gets, whatever the state of the stored account.
CorrectPassword(n, pw) ==
  \E st \in studentByNumber(n) : matchPassword(pw, students[st].password)
C10_LoginDoesNotRevealNumber ==
  \A n \in Numbers, m \in Numbers, pw \in Passwords :
     (studentByNumber(m) = {} /\ ~CorrectPassword(n, pw))
     => /\ studentLoginOutcome(n, pw).status = studentLoginOutcome(m, pw).status
        /\ studentLoginOutcome(n, pw).msg = studentLoginOutcome(m, pw).msg

CreateRoutes == {"students/create", "teacher/students/add"}

\* A step in which a creation handler ran (the request passed the guards).
CreationHandled == resp = Idle /\ resp'.route \in CreateRoutes /\ resp'.by = "handler"

\* The attempt was refused as a duplicate and wrote nothing.
RefusedAsDuplicate(msg) ==
  resp'.status = 400 /\ resp'.msg = msg /\ students' = students

\* The attempt created the record under the number of the request.
Created ==
  /\ resp'.status = 201
  /\ studentByNumber(resp'.body.number) = {}
  /\ \E s \in StudentIds :
       /\ NumberOf(s) = resp'.body.number
       /\ students'[s].exists /\ students'[s].name = resp'.body.name
       /\ \A o \in StudentIds \ {s} : students'[o] = students[o]

Extracted(r) == extractToken(r.hdr, r.ck)
ExtractedState(r) == IF r.hdr.scheme = "Bearer" THEN r.hp ELSE r.cp

OwnershipRoutes == {"owned/checkOwnership", "owned/ownershipOrAdmin"}

\* C16: behind an ownership check an authenticated admin always reaches
\* the handler, and an authenticated student or teacher whose own id
\* differs from the id in the request is denied with 403.
C16_OwnershipDeniesForeignId ==
  (/\ resp.route \in OwnershipRoutes
   /\ resp.by \notin {"verifyToken", "protect"})
  => /\ Extracted(resp).userType = "admin" => resp.ran
     /\ (/\ Extracted(resp).userType # "admin"
         /\ resp.body.param # "-"
         /\ resp.body.param # Extracted(resp).id)
        => (resp.status = 403 /\ ~resp.ran)

OptionalRoutes == {"public/optionalAuth", "public/optionalAuthLegacy"}

\* The request carries a token that verifies, of a known kind, whose
\* principal exists and is active.
Attachable(r) ==
  /\ Extracted(r).sig = "ok"
  /\ r.at < Extracted(r).exp
  /\ ExtractedState(r) = "active"

\* C20: the optional authentication never rejects; the handler runs for
\* every request, with the principal of the token when the token verifies
\* and names an existing, active principal of a known kind, and with no
\* principal in every other case.
C20_OptionalAuthNeverRejects ==
  resp.route \in OptionalRoutes
  => /\ resp.ran /\ resp.by = "handler" /\ resp.status = 200
     /\ IF Attachable(resp) THEN resp.principal = Extracted(resp).id
                            ELSE resp.principal = "-"

\* C20 witness: a live token of a deactivated principal went through the
\* optional authentication and the handler ran without a principal.
C20_Witness ==
  /\ resp.route \in OptionalRoutes
  /\ Extracted(resp).sig = "ok" /\ resp.at < Extracted(resp).exp
  /\ ExtractedState(resp) = "inactive"
  /\ resp.ran /\ resp.principal = "-"

\* C17: whatever admin operations are performed, the Staff record created
\* with the super-admin email still exists.
C17_SuperAdminNeverDeleted == users[SuperAdminId].exists

\* C18: an active teacher or admin who presents a live token on a
\* staff-tier analytics route is authenticated first and reaches the
\* handler.
C18_StaffReachStaffTierRoutes ==
  (/\ resp.route = "analytics/weekly"
   /\ PresentedLive(resp)
   /\ PresentedState(resp) = "active"
   /\ Presented(resp).userType \in {"teacher", "admin"})
  => (resp.ran /\ resp.status = 200 /\ resp.principal = Presented(resp).id)

\* C12: page views of one (IP, session) pair that run concurrently lose no
\* increment and no entry: the visit count of every Visit Record equals
\* the number of page-visit entries appended to it.
C12_NoLostVisitUpdate ==
  \A s \in SessionIds : visits[s].exists => visits[s].visitCount = Len(visits[s].pages)

\* The presence record of session s is older than the window.
Stale(s) == online[s].exists /\ online[s].lastActivity + PresenceWindow < now

\* C13: a presence record older than the window is not counted, deleted
\* by the TTL or not, and the session is counted again as soon as a
\* qualifying request of the same session has been tracked.
C13_PresenceWindow ==
  /\ [](/\ \A s \in SessionIds : Stale(s) => s \notin OnlineSessions
        /\ getOnlineCount = Cardinality({s \in SessionIds : online[s].exists /\ ~Stale(s)}))
  /\ [][\A p \in ProcIds :
          (proc[p].pc = "presence" /\ proc'[p].presence = "written")
          => (online'[proc[p].sid].exists /\ ~Stale(proc[p].sid)'
              /\ (proc[p].sid \in OnlineSessions)')]_vars

\* C13 witness: a session whose record had fallen out of the window is
\* counted again after its next tracked request.
C13_Witness ==
  \E p \in ProcIds :
     /\ proc[p].presence = "written" /\ proc[p].wasStale
     /\ proc[p].sid \in OnlineSessions

\* C14: the analytics middleware calls next() exactly once for every
\* request, after the trackers, whatever they did, and sends no response.
C14_NextExactlyOnce ==
  /\ [](\A p \in ProcIds : proc[p].nexts = IF proc[p].pc = "done" THEN 1 ELSE 0)
  /\ [][proc' # proc => resp' = resp]_vars

\* C14 witness: a request was handed over once although a tracker failed
\* with a store error.
C14_Witness ==
  \E p \in ProcIds :
     /\ proc[p].pc = "done" /\ proc[p].nexts = 1
     /\ "failed" \in {proc[p].presence, proc[p].visit}

\* C15: a request with a crawler user-agent changes neither collection
\* nor the site statistics, and no Visit Record carries the bot flag.
C15_BotsNeverRecorded ==
  /\ [](\A s \in SessionIds : ~visits[s].isBot)
  /\ [][\A p \in ProcIds :
          (proc[p].pc # "idle" /\ isBot(proc[p].ua) /\ proc'[p] # proc[p])
          => (online' = online /\ visits' = visits /\ siteStats' = siteStats)]_vars

\* C15 witness: a crawler's page request went through both trackers and
\* its session has no record in either collection.
C15_Witness ==
  \E p \in ProcIds :
     /\ proc[p].pc = "done" /\ isBot(proc[p].ua) /\ proc[p].path = "page"
     /\ proc[p].presence = "skipped" /\ proc[p].visit = "skipped"
     /\ ~online[proc[p].sid].exists /\ ~visits[proc[p].sid].exists

\* C19: the middleware does not wait for the tracking writes: once a write
\* of a request has completed, next() has already been called for it.
C19_NextNotDelayedByTracking ==
  \A p \in ProcIds :
     (proc[p].presence = "written" \/ proc[p].visit \in {"loaded", "saved"})
     => proc[p].nexts = 1


\* The page-visit entries of all Visit Records whose own visitTime falls
\* on day d.
RECURSIVE EntriesOn(_, _)
EntriesOn(S, d) ==
  IF S = {} THEN 0
  ELSE LET s == CHOOSE x \in S : TRUE
       IN  Cardinality({i \in 1..Len(visits[s].pages) : dayOf(visits[s].pages[i]) = d})
             + EntriesOn(S \ {s}, d)

\* Every Visit Record has been saved with its last page view: no request
\* is in flight and no save has failed since.
AllSaved ==
  /\ Quiet
  /\ \A s \in SessionIds :
       visits[s].exists =>
         /\ visits[s].pages # << >>
         /\ visits[s].lastVisit = visits[s].pages[Len(visits[s].pages)]

\* C21: once the page views are saved, the bucket of every day in the
\* weekly and the monthly rollup, and today's total, hold the number of
\* page-visit entries whose own timestamp falls on that day.
C21_PageViewsBucketedByEntryDay ==
  AllSaved =>
    /\ \A d \in 0..MaxClock :
         /\ getWeeklyStats(d) = EntriesOn(SessionIds, d)
         /\ getMonthlyStats(d) = EntriesOn(SessionIds, d)
    /\ getTodayStats = EntriesOn(SessionIds, dayOf(now))


\* The role label of the principal behind an Authorization header: the
\* kind of the active principal a valid token belongs to, else guest.
PrincipalRole(hdr) ==
  LET v == verifyToken(hdr, NoTok)
  IN  IF v.pass /\ v.user # Anonymous THEN v.user.userType ELSE "guest"

\* C22: every presence record carries the role label of the principal of
\* the request that wrote it (admin, teacher or student with
\* isAuthenticated true for a valid token of an active principal, guest
\* otherwise), and the counts by role group the sessions accordingly.
C22_PresenceCarriesPrincipalRole ==
  /\ \A s \in SessionIds :
       online[s].exists =>
         /\ online[s].userRole = PrincipalRole(online[s].hdr)
         /\ online[s].isAuthenticated = (PrincipalRole(online[s].hdr) # "guest")
  /\ \A role \in {"admin", "teacher", "student", "guest"} :
       getOnlineByRole(role) =
         Cardinality({s \in OnlineSessions : PrincipalRole(online[s].hdr) = role})


\* Routes whose chain ends in a role gate or an ownership check, and the
\* exchanges in which that middleware was invoked (the authentication in
\* front of it, if any, had called next()).
AuthorizationRoutes ==
  ReadRoutes \cup {"owned/checkOwnership", "owned/checkOwnershipAlone"}
AuthorizationInvoked(r) ==
  /\ r.route \in AuthorizationRoutes
  /\ r.by \in {"authorizeRoles", "checkOwnership", "handler"}

\* C23: every invocation of a role gate or of the ownership check either
\* calls next() exactly once and sends nothing, or sends exactly one
\* denial (401, 403 or 500) and does not call next(); also with no
\* principal on the request.
C23_AuthorizationOneOutcome ==
  AuthorizationInvoked(resp) =>
    \/ /\ resp.nexts = 1 /\ resp.sends = 0
       /\ resp.ran /\ resp.by = "handler"
    \/ /\ resp.nexts = 0 /\ resp.sends = 1
       /\ ~resp.ran /\ resp.by \in {"authorizeRoles", "checkOwnership"}
       /\ resp.status \in {401, 403, 500}

\* A student asked for a foreign id and the ownership check denied it.
C23_Witness ==
  /\ resp.route = "owned/checkOwnership"
  /\ resp.by = "checkOwnership" /\ resp.status = 403
  /\ resp.principal = "-" /\ resp.body.param = "u1"


\* C24: whenever a Student record is created, its owning-teacher reference
\* names a Staff record that exists, is active and is of kind teacher.
C24_OwnerIsActiveTeacher ==
  [][\A s \in StudentIds :
       (~students[s].exists /\ students'[s].exists) =>
         LET t == students'[s].teacher
         IN  /\ users[t].exists
             /\ users[t].isActive
             /\ users[t].userType = "teacher"]_vars


\* C25: a request is let through a role gate only if the kind stored for
\* its principal at the time of the request is one the gate allows, so a
\* token issued before a change of kind is not authorized with the old
\* kind.
C25_AuthorizedWithStoredKind ==
  [][(/\ resp' # resp
      /\ resp'.ran
      /\ resp'.route \in {"admin/users/update", "admin/users/delete",
                          "admin/users/bulk-action"}
      /\ resp'.principal \in StaffIds)
     => users[resp'.principal].userType \in rolesOf(resp'.route)]_vars


\* The kind stored for the subject of a token response.
StoredKind(id) == IF id \in StaffIds THEN users[id].userType ELSE "student"

\* C26: every token delivered by a login or registration endpoint (and the
\* userType of the response body, which is the same value) carries the
\* kind stored for the principal it was issued to.
C26_TokenCarriesStoredKind ==
  (resp.tok # NoTok /\ resp.uid \in StaffIds \cup StudentIds)
    => resp.tok.userType = StoredKind(resp.uid)


\* The two staff login endpoints.
StaffLoginRoutes == {"auth/login", "auth/teacher/login"}

\* C27: a successful staff login leaves the stored principal as it was
\* (the last-login timestamp aside): the password hash is the same before
\* and after, and it still matches a password, so the pair that logged in
\* logs in again until a password update changes the hash.
C27_LoginKeepsPasswordHash ==
  [][(/\ resp' # resp
      /\ resp'.route \in StaffLoginRoutes
      /\ resp'.status = 200)
     => /\ users' = users
        /\ users'[resp'.uid].password = users[resp'.uid].password
        /\ \E pw \in Passwords : matchPassword(pw, users'[resp'.uid].password)]_vars

\* A principal that logged in at an earlier instant (the client still
\* holds that token) has logged in again.
C27_Witness ==
  /\ resp.route \in StaffLoginRoutes /\ resp.status = 200
  /\ held.sig = "ok" /\ held.id = resp.uid
  /\ held.exp < resp.tok.exp


\* What C28 says of the Visit Records at rest, and of every step.
VisitCountsEntries ==
  \A s \in SessionIds :
    visits[s].exists =>
      /\ visits[s].visitCount = Len(visits[s].pages)
      /\ visits[s].firstVisit <= visits[s].lastVisit
VisitCreationFields ==
  \A s \in SessionIds :
    visits[s].exists =>
      /\ visits'[s].exists
      /\ visits'[s].firstVisit = visits[s].firstVisit
      /\ visits'[s].referrer = visits[s].referrer

C29_OnePresenceRecordPerClient ==
  /\ \A s, t \in OnlineSessions : online[s].client = online[t].client => s = t
  /\ getOnlineCount <= Cardinality({online[s].client : s \in OnlineSessions})


\* C30: a request made by a Staff principal whose stored kind is not admin
\* leaves that principal's own active flag and kind as they were.
C30_NonAdminKeepsOwnFlagAndKind ==
  [][(/\ resp' # resp
      /\ resp'.principal \in StaffIds
      /\ users[resp'.principal].userType # "admin")
     => /\ users'[resp'.principal].isActive = users[resp'.principal].isActive
        /\ users'[resp'.principal].userType = users[resp'.principal].userType]_vars

====
